---- MODULE Spec2Model ----
(***************************************************************************)
(* A model of the concurrent ingestion-and-enrichment pipeline of          *)
(* github_trending_push: the adaptive rate limiter, the fetch client, the  *)
(* batch summarizer and the pipeline orchestrator.                         *)
(*                                                                         *)
(* Each subsystem has its own specification over the shared variables:     *)
(*   SpecLimiter      one limiter, its operations called one at a time     *)
(*   SpecLimiterConc  one limiter used by a thread and an event-loop task  *)
(*   SpecFetch        concurrent fetch_page calls on one fetch client      *)
(*   SpecSumm         a batch, a detailed report and a stream on one       *)
(*                    summarizer                                           *)
(*   SpecRun          one run_task_async invocation, stage by stage        *)
(*   SpecWait         threads in wait and tasks in wait_async on one       *)
(*                    limiter, against a clock                             *)
(*   SpecStars        ProjectFilter.filter_by_stars on lists of candidates *)
(*   SpecRegen        IncrementalSummaryManager.should_regenerate_summary  *)
(*   SpecReport       the post-parse of a structured report                *)
(*   SpecBackends     AISummarizer.summarize over its enabled backends     *)
(*   SpecScrape       scrape_trending_by_range and the fetch it makes      *)
(*   SpecPace         the requests one scrape issues, against a clock      *)
(*   SpecPolicy       RobotsChecker's cache of per-origin parsers          *)
(*   SpecNumber       parse_github_number on the page's counter texts      *)
(*   SpecJobs         the scheduled, manual and start-up invocations       *)
(*   SpecStream       one run of the streaming detailed report             *)
(*   SpecTerminate    the fetch_page calls, or worker threads on one       *)
(*                    limiter, under fair scheduling                       *)
(***************************************************************************)
EXTENDS Integers, Sequences, FiniteSets, TLC

(***************************************************************************)
(* Exact rationals <<n, d>> (d > 0, lowest terms) stand for the limiter's  *)
(* float seconds: the factors 0.9, 1.5 and 2.0 are 9/10, 3/2 and 2/1.      *)
(***************************************************************************)
RECURSIVE GCD(_, _)
GCD(a, b) == IF b = 0 THEN a ELSE GCD(b, a % b)

Norm(q) == LET g == GCD(q[1], q[2]) IN <<q[1] \div g, q[2] \div g>>

RLess(a, b) == a[1] * b[2] < b[1] * a[2]

RLeq(a, b) == a[1] * b[2] <= b[1] * a[2]

\* Python's max(a, b) and min(a, b) on two numbers
RMax(a, b) == IF RLess(a, b) THEN b ELSE a

RMin(a, b) == IF RLess(b, a) THEN b ELSE a

RMul(a, n, d) == Norm(<<a[1] * n, a[2] * d>>)

\* 1.0 / x
RInv(x) == Norm(<<x[2], x[1]>>)

\* 2 ** attempt
RECURSIVE Pow2(_)
Pow2(n) == IF n = 0 THEN 1 ELSE 2 * Pow2(n - 1)

(***************************************************************************)
(* Bounds of the model                                                     *)
(***************************************************************************)
\* interval adjustments one explored limiter history may make
MaxAdjust == 4

\* record_* calls each context makes in the two-context specification
MaxCalls == 2

\* concurrent fetch_page calls on one scraper
NumFetchers == 3

\* the largest max_concurrent a scraper is constructed with
MaxPermits == 2

\* the `retries` argument of the explored fetch_page calls (the default is 3)
FetchRetries == 2

\* candidates in one batch_summarize call
MaxBatch == 3

\* the largest max_concurrent a summarizer is constructed with
MaxSummPermits == 2

\* chunks one streamed report delivers
MaxChunks == 1

\* listing entries on one fetched page
MaxPage == 3

\* threads calling wait and tasks calling wait_async on one limiter
NumWaitThreads == 2

NumWaitTasks == 1

\* wait / wait_async calls per caller
MaxWaits == 1

\* seconds the clock shows at the start, and seconds it then advances
StartTime == 3

MaxTime == 3

\* candidates in one list given to filter_by_stars
MaxStarRepos == 2

\* backends enabled in the configuration
MaxBackends == 3

\* the largest `retries` a fetch_page call is given by itself
MaxRetries == 3

\* can_fetch / get_crawl_delay calls made on one checker
MaxPolicyCalls == 3

\* times the scheduler's triggers fire, and manual triggers posted
MaxFires == 2

MaxTriggers == 2

\* MAX_BACKGROUND_TASKS, the ceiling run_task puts on the background tasks
MaxBackgroundTasks == 2

\* chunks one explored provider stream delivers
MaxStreamChunks == 3

\* rounds of wait and record_success each worker thread makes
MaxRounds == 2

(***************************************************************************)
(* Constructor arguments the limiter is explored with: the defaults        *)
(* (1.0, 0.1, 10.0), the scraper's (2.0, 0.5, 5.0), the tests' rate 10.0,  *)
(* and rates whose reciprocal lies outside [min_interval, max_interval].   *)
(***************************************************************************)
InitialRates == {<<1, 20>>, <<1, 1>>, <<2, 1>>, <<10, 1>>, <<100, 1>>}

MinIntervals == {<<1, 10>>, <<1, 2>>, <<17, 20>>}

MaxIntervals == {<<5, 1>>, <<10, 1>>}

SuccessThreshold == 10

ErrorThreshold == 3

\* generate_summary's retries
SummaryRetries == 5

\* _create_fallback_report: raw_content[:500]
ExcerptChars == 500

\* fetch_page: retries, as scrape_trending_by_range calls it
DefaultRetries == 3

\* _get_parser: @lru_cache(maxsize=128)
CacheSize == 128

\* _get_shared_executor: ThreadPoolExecutor(max_workers=3)
ExecutorWorkers == 3

\* _execute_with_retry: max_retries
JobRetries == 3


VARIABLES
    lim,          \* the AdaptiveRateLimiter's fields
    lastOp,       \* the limiter operation that completed last ("init" after construction)
    prevInterval, \* current_interval before that operation
    nadj,         \* interval adjustments made so far
    runLen,       \* consecutive record_success calls just made (saturates at SuccessThreshold)
    runStart,     \* current_interval when that run of successes began
    ctx,          \* two-context specification: each context's position and registers
    syncLock,     \* holder of _sync_lock ("none" when free)
    asyncLock,    \* the asyncio lock: "unset" before its lazy creation, "none" when free, else held
    started,      \* two-context specification: record_success / generic record_error calls begun
    ft,           \* fetch specification: each fetch_page call's position, attempt and result
    fetchSem,     \* AsyncScraperTrending.semaphore: the permits left
    maxConcurrent,\* the scraper's max_concurrent
    batch,        \* summarizer specification: the candidates given to batch_summarize
    modelReady,   \* whether the selected model has an initialised client
    st,           \* each batch item's generate_summary call: position, attempt, result
    aux,          \* the detailed-report call's and the streaming-report call's positions
    summSem,      \* AsyncAISummarizer.semaphore: the permits left
    summMax,      \* the summarizer's max_concurrent
    output,       \* whether batch_summarize has returned, and what
    env,          \* pipeline specification: the run's inputs and configuration
    run,          \* run_task_async: position, candidates in hand, TaskResult, stage history
    store,        \* the storage collaborator: trending records, summaries, JSON backup
    sent,         \* the payloads handed to the notifier, in order
    now,          \* wait specification: the clock time.time() reads, in seconds
    lastRequestTime, \* the limiter's last_request_time
    wt,           \* each caller of wait / wait_async: position and what it read
    stamps,       \* the issue stamps made so far, in order
    call,         \* function specifications: the function applied and its arguments
    ret,          \* whether it has returned, and what
    sm,           \* AISummarizer.summarize: configuration, position, backend calls made, result
    sc,           \* scrape_trending_by_range: position, attempts, requests issued, result
    pace,         \* pacing specification: one paced scrape, its sleeps and its requests
    policy,       \* RobotsChecker._get_parser's cache and the history of calls to it
    jobs,         \* the invocations of the pipeline and where they came from
    stream        \* one run of the streaming report: position, content collected, events yielded

limVars == <<lim, lastOp, prevInterval, nadj, runLen, runStart>>

concVars == <<ctx, syncLock, started>>

fetchVars == <<ft, fetchSem, maxConcurrent>>

limGhost == <<lastOp, prevInterval, nadj, runLen, runStart>>

\* what the limiter specifications leave alone, and what the fetch specification does
summVars == <<batch, modelReady, st, aux, summSem, summMax, output>>

runVars == <<env, run, store, sent>>

waitVars == <<now, lastRequestTime, wt, stamps>>

\* the state of the component-level specifications
pureVars == <<call, ret>>

\* the state of the service-level specifications
serviceVars == <<pace, policy, jobs, stream>>

unitVars == <<waitVars, pureVars, sm, sc, serviceVars>>

\* the state of the limiter, fetch, summarizer and pipeline specifications
coreVars == <<limVars, concVars, asyncLock, fetchVars, summVars, runVars>>

outsidePure == <<coreVars, waitVars, sm, sc, serviceVars>>

outsideBackends == <<coreVars, waitVars, pureVars, sc, serviceVars>>

outsideScrape == <<limGhost, concVars, asyncLock, fetchVars, summVars, store, sent, waitVars, pureVars, sm, serviceVars>>

outsideLimiter == <<fetchVars, summVars, runVars, unitVars>>

outsideFetch == <<concVars, limGhost, summVars, runVars, unitVars>>

outsideSumm == <<limVars, concVars, asyncLock, fetchVars, runVars, unitVars>>

outsideRun == <<limVars, concVars, asyncLock, fetchVars, summVars, unitVars>>

outsideWait == <<lim, limGhost, ctx, started, fetchVars, summVars, runVars, pureVars, sm, sc, serviceVars>>

vars == <<limVars, concVars, asyncLock, fetchVars, summVars, runVars, unitVars>>

(***************************************************************************)
(* AdaptiveRateLimiter                                                     *)
(***************************************************************************)
\* __init__: current_interval = 1.0 / initial_rate, the bounds stored as given
NewLimiter(initial_rate, min_interval, max_interval) ==
    [current_interval |-> RInv(initial_rate),
     min_interval     |-> min_interval,
     max_interval     |-> max_interval,
     success_count    |-> 0,
     error_count      |-> 0]

\* SpeedUp without the floor at min_interval
SpeedUpNoFloor(l) == RMul(l.current_interval, 9, 10)

\* the interval after the tenth success
SpeedUp(l) == RMax(l.min_interval, RMul(l.current_interval, 9, 10))

\* the interval after an explicit throttle signal
Throttle(l) == RMin(l.max_interval, RMul(l.current_interval, 2, 1))

\* the interval after three accumulated generic errors
SlowDown(l) == RMin(l.max_interval, RMul(l.current_interval, 3, 2))

\* record_success, the whole critical section
RecordSuccess(l) ==
    LET n == l.success_count + 1
    IN  IF n >= SuccessThreshold
        THEN [l EXCEPT !.current_interval = SpeedUp(l), !.success_count = 0]
        ELSE [l EXCEPT !.success_count = n]

\* record_success_async, the whole critical section
RecordSuccessAsync(l) ==
    LET n == l.success_count + 1
    IN  IF n >= SuccessThreshold
        THEN [l EXCEPT !.current_interval = SpeedUp(l), !.success_count = 0]
        ELSE [l EXCEPT !.success_count = n]

\* record_error, the whole critical section
RecordError(l, is_rate_limit) ==
    LET n == l.error_count + 1
    IN  IF is_rate_limit
        THEN [l EXCEPT !.current_interval = Throttle(l), !.error_count = 0]
        ELSE IF n >= ErrorThreshold
             THEN [l EXCEPT !.current_interval = SlowDown(l), !.error_count = 0]
             ELSE [l EXCEPT !.error_count = n]

\* record_error_async, the whole critical section
RecordErrorAsync(l, is_rate_limit) ==
    LET n == l.error_count + 1
    IN  IF is_rate_limit
        THEN [l EXCEPT !.current_interval = Throttle(l), !.error_count = 0]
        ELSE IF n >= ErrorThreshold
             THEN [l EXCEPT !.current_interval = SlowDown(l), !.error_count = 0]
             ELSE [l EXCEPT !.error_count = n]

\* whether the call assigns current_interval
SuccessAdjusts(l) == l.success_count + 1 >= SuccessThreshold

ErrorAdjusts(l, is_rate_limit) == is_rate_limit \/ l.error_count + 1 >= ErrorThreshold

WaitIdle ==
    /\ now = 0
    /\ lastRequestTime = 0
    /\ wt = << >>
    /\ stamps = << >>

PureIdle ==
    /\ call = [fn |-> "none"]
    /\ ret = [done |-> FALSE]

BackendsIdle == sm = [pc |-> "idle"]

ScrapeIdle == sc = [pc |-> "idle"]

PaceIdle == pace = [pc |-> "idle"]

PolicyIdle == policy = [cache |-> << >>, filled |-> 0, calls |-> << >>]

JobsIdle == jobs = [pc |-> "idle"]

StreamIdle == stream = [pc |-> "idle"]

ServiceIdle ==
    /\ PaceIdle
    /\ PolicyIdle
    /\ JobsIdle
    /\ StreamIdle

UnitsIdle ==
    /\ WaitIdle
    /\ PureIdle
    /\ BackendsIdle
    /\ ScrapeIdle
    /\ ServiceIdle

FetchIdle ==
    /\ ft = << >>
    /\ fetchSem = 0
    /\ maxConcurrent = 0

RunIdle ==
    /\ env = [time_range |-> "daily", is_startup |-> FALSE, page |-> << >>, keywords |-> {},
              languages |-> [whitelist |-> {}, blacklist |-> {}]]
    /\ run = [pc |-> "idle"]
    /\ store = [records |-> {}, summaries |-> {}, backup |-> {}]
    /\ sent = << >>

SummIdle ==
    /\ batch = << >>
    /\ modelReady = FALSE
    /\ st = << >>
    /\ aux = [report |-> "idle", stream |-> "idle", chunks |-> 0]
    /\ summSem = 0
    /\ summMax = 0
    /\ output = [returned |-> FALSE, repos |-> << >>]

ConcIdle ==
    /\ ctx = [c \in {"thread", "task"} |-> [pc |-> "idle", op |-> "none", reg |-> 0,
                                           regI |-> <<0, 1>>, calls |-> 0]]
    /\ syncLock = "none"
    /\ started = [success |-> 0, error |-> 0, throttle |-> 0]

CoreIdle ==
    /\ lim = NewLimiter(<<1, 1>>, <<1, 10>>, <<10, 1>>)
    /\ lastOp = "init"
    /\ prevInterval = lim.current_interval
    /\ nadj = 0
    /\ runLen = 0
    /\ runStart = lim.current_interval
    /\ asyncLock = "unset"
    /\ ConcIdle
    /\ FetchIdle
    /\ SummIdle
    /\ RunIdle

InitLimiter ==
    /\ \E r \in InitialRates, lo \in MinIntervals, hi \in MaxIntervals :
          /\ RLeq(lo, hi)
          /\ lim = NewLimiter(r, lo, hi)
    /\ lastOp = "init"
    /\ prevInterval = lim.current_interval
    /\ nadj = 0
    /\ runLen = 0
    /\ runStart = lim.current_interval
    /\ asyncLock = "unset"
    /\ ConcIdle
    /\ FetchIdle
    /\ SummIdle
    /\ RunIdle
    /\ UnitsIdle

\* one completed call: the ghost fields follow the operation
Completed(op, l2, adjusts) ==
    /\ adjusts => nadj < MaxAdjust
    /\ lim' = l2
    /\ lastOp' = op
    /\ prevInterval' = lim.current_interval
    /\ nadj' = IF adjusts THEN nadj + 1 ELSE nadj
    /\ UNCHANGED <<concVars, asyncLock, outsideLimiter>>

SuccessRun ==
    /\ runLen' = IF runLen < SuccessThreshold THEN runLen + 1 ELSE runLen
    /\ runStart' = IF runLen = 0 THEN lim.current_interval ELSE runStart

ErrorRun ==
    /\ runLen' = 0
    /\ runStart' = lim'.current_interval

DoRecordSuccess ==
    /\ Completed("record_success", RecordSuccess(lim), SuccessAdjusts(lim))
    /\ SuccessRun

DoRecordSuccessAsync ==
    /\ Completed("record_success", RecordSuccessAsync(lim), SuccessAdjusts(lim))
    /\ SuccessRun

DoRecordError ==
    \E rl \in BOOLEAN :
        /\ Completed(IF rl THEN "record_error_throttle" ELSE "record_error",
                     RecordError(lim, rl), ErrorAdjusts(lim, rl))
        /\ ErrorRun

DoRecordErrorAsync ==
    \E rl \in BOOLEAN :
        /\ Completed(IF rl THEN "record_error_throttle" ELSE "record_error",
                     RecordErrorAsync(lim, rl), ErrorAdjusts(lim, rl))
        /\ ErrorRun

NextLimiter ==
    \/ DoRecordSuccess
    \/ DoRecordSuccessAsync
    \/ DoRecordError
    \/ DoRecordErrorAsync

SpecLimiter == InitLimiter /\ [][NextLimiter]_vars

(***************************************************************************)
(* One limiter shared by a thread, which calls the blocking operations     *)
(* under _sync_lock, and an event-loop task, which calls the suspension    *)
(* operations under the asyncio lock.  The thread and the loop run on      *)
(* different OS threads, so a step of one may fall between any two         *)
(* attribute accesses of the other; a record_* call is its sequence of     *)
(* loads and stores.                                                       *)
(***************************************************************************)
Threads == {"thread"}

Tasks == {"task"}

Contexts == Threads \cup Tasks

RecordOps == {"success", "error", "throttle"}

RECURSIVE AfterSuccesses(_, _)
AfterSuccesses(l, k) == IF k = 0 THEN l ELSE AfterSuccesses(RecordSuccess(l), k - 1)

RECURSIVE AfterErrors(_, _)
AfterErrors(l, k) == IF k = 0 THEN l ELSE AfterErrors(RecordError(l, FALSE), k - 1)

\* the limiter as constructed by default, after a few calls made one at a time
InitLimiterConc ==
    /\ \E ks \in {0, SuccessThreshold - 1}, ke \in {0, ErrorThreshold - 1} :
          /\ lim = AfterErrors(AfterSuccesses(NewLimiter(<<1, 1>>, <<1, 10>>, <<10, 1>>), ks), ke)
          /\ started = [success |-> ks, error |-> ke, throttle |-> 0]
    /\ ctx = [c \in Contexts |-> [pc |-> "idle", op |-> "none", reg |-> 0,
                                  regI |-> <<0, 1>>, calls |-> 0]]
    /\ syncLock = "none"
    /\ asyncLock = "unset"
    /\ lastOp = "init"
    /\ prevInterval = lim.current_interval
    /\ nadj = 0
    /\ runLen = 0
    /\ runStart = lim.current_interval
    /\ FetchIdle
    /\ SummIdle
    /\ RunIdle
    /\ UnitsIdle

Goto(c, pc) == ctx' = [ctx EXCEPT ![c].pc = pc]

\* `with self._sync_lock:` entered by a thread
AcquireSync(c, op) ==
    /\ c \in Threads
    /\ ctx[c].pc = "idle"
    /\ ctx[c].calls < MaxCalls
    /\ syncLock = "none"
    /\ syncLock' = c
    /\ ctx' = [ctx EXCEPT ![c].pc = "locked", ![c].op = op, ![c].calls = @ + 1]
    /\ started' = [started EXCEPT ![op] = @ + 1]
    /\ UNCHANGED <<asyncLock, limVars, outsideLimiter>>

\* `async with self._get_async_lock():` entered by a task; the lock is created on first use
AcquireAsync(c, op) ==
    /\ c \in Tasks
    /\ ctx[c].pc = "idle"
    /\ ctx[c].calls < MaxCalls
    /\ asyncLock \in {"unset", "none"}
    /\ asyncLock' = c
    /\ ctx' = [ctx EXCEPT ![c].pc = "locked", ![c].op = op, ![c].calls = @ + 1]
    /\ started' = [started EXCEPT ![op] = @ + 1]
    /\ UNCHANGED <<syncLock, limVars, outsideLimiter>>

CountField(op) == IF op = "success" THEN "success_count" ELSE "error_count"

\* `self.<count> += 1`, the load
LoadCount(c) ==
    /\ ctx[c].pc = "locked"
    /\ ctx' = [ctx EXCEPT ![c].pc = "loaded", ![c].reg = lim[CountField(ctx[c].op)]]
    /\ UNCHANGED <<syncLock, asyncLock, started, limVars, outsideLimiter>>

\* `self.<count> += 1`, the store
StoreCount(c) ==
    /\ ctx[c].pc = "loaded"
    /\ lim' = [lim EXCEPT ![CountField(ctx[c].op)] = ctx[c].reg + 1]
    /\ Goto(c, "stored")
    /\ UNCHANGED <<syncLock, asyncLock, started, lastOp, prevInterval, nadj, runLen, runStart, outsideLimiter>>

\* the test that guards the adjustment
Adjusting(c) ==
    CASE ctx[c].op = "success"  -> lim.success_count >= SuccessThreshold
      [] ctx[c].op = "throttle" -> TRUE
      [] ctx[c].op = "error"    -> lim.error_count >= ErrorThreshold

TestCount(c) ==
    /\ ctx[c].pc = "stored"
    /\ Goto(c, IF Adjusting(c) THEN "branch" ELSE "unlock")
    /\ UNCHANGED <<syncLock, asyncLock, started, limVars, outsideLimiter>>

\* `self.current_interval = ...`, the load of the right-hand side
LoadInterval(c) ==
    /\ ctx[c].pc = "branch"
    /\ ctx' = [ctx EXCEPT ![c].pc = "computed", ![c].regI = lim.current_interval]
    /\ UNCHANGED <<syncLock, asyncLock, started, limVars, outsideLimiter>>

Adjusted(op, l, interval) ==
    LET at == [l EXCEPT !.current_interval = interval]
    IN  CASE op = "success"  -> SpeedUp(at)
          [] op = "throttle" -> Throttle(at)
          [] op = "error"    -> SlowDown(at)

\* `self.current_interval = ...`, the store
StoreInterval(c) ==
    /\ ctx[c].pc = "computed"
    /\ lim' = [lim EXCEPT !.current_interval = Adjusted(ctx[c].op, lim, ctx[c].regI)]
    /\ Goto(c, "reset")
    /\ UNCHANGED <<syncLock, asyncLock, started, lastOp, prevInterval, nadj, runLen, runStart, outsideLimiter>>

\* `self.<count> = 0`
ResetCount(c) ==
    /\ ctx[c].pc = "reset"
    /\ lim' = [lim EXCEPT ![CountField(ctx[c].op)] = 0]
    /\ Goto(c, "unlock")
    /\ UNCHANGED <<syncLock, asyncLock, started, lastOp, prevInterval, nadj, runLen, runStart, outsideLimiter>>

\* leaving the `with` block
Release(c) ==
    /\ ctx[c].pc = "unlock"
    /\ Goto(c, "idle")
    /\ IF c \in Threads
       THEN syncLock' = "none" /\ UNCHANGED asyncLock
       ELSE asyncLock' = "none" /\ UNCHANGED syncLock
    /\ UNCHANGED <<started, limVars, outsideLimiter>>

NextLimiterConc ==
    \E c \in Contexts :
        \/ \E op \in RecordOps : AcquireSync(c, op)
        \/ \E op \in RecordOps : AcquireAsync(c, op)
        \/ LoadCount(c)
        \/ StoreCount(c)
        \/ TestCount(c)
        \/ LoadInterval(c)
        \/ StoreInterval(c)
        \/ ResetCount(c)
        \/ Release(c)

SpecLimiterConc == InitLimiterConc /\ [][NextLimiterConc]_vars

Quiescent == \A c \in Contexts : ctx[c].pc = "idle"

(***************************************************************************)
(* AsyncScraperTrending.fetch_page: concurrent calls on one scraper, all   *)
(* tasks of one event loop.  A step is what runs between two suspension    *)
(* points.                                                                 *)
(***************************************************************************)
Fetchers == 1 .. NumFetchers

\* AsyncScraperTrending.__init__: the semaphore and the scraper's limiter
InitFetch ==
    /\ maxConcurrent \in 1 .. MaxPermits
    /\ fetchSem = maxConcurrent
    /\ lim = NewLimiter(<<2, 1>>, <<1, 2>>, <<5, 1>>)
    /\ asyncLock = "unset"
    /\ ft = [t \in Fetchers |-> [pc |-> "enter", attempt |-> 0, status |-> "none", result |-> "pending",
                               reported |-> << >>]]
    /\ lastOp = "init"
    /\ prevInterval = lim.current_interval
    /\ nadj = 0
    /\ runLen = 0
    /\ runStart = lim.current_interval
    /\ ConcIdle
    /\ SummIdle
    /\ RunIdle
    /\ UnitsIdle

FGoto(t, pc) == ft' = [ft EXCEPT ![t].pc = pc]

LimiterLockFree == asyncLock \in {"unset", "none"}

\* `session = await self._get_session()`: the session is created or reused, or creating it raises
GetSession(t) ==
    /\ ft[t].pc = "enter"
    /\ \/ FGoto(t, "start")
       \/ ft' = [ft EXCEPT ![t].pc = "done", ![t].result = "raised"]
    /\ UNCHANGED <<lim, asyncLock, fetchSem, maxConcurrent, outsideFetch>>

\* wait_async entered: the limiter's lock is taken and held while the caller sleeps
WaitAsyncEnter(t) ==
    /\ ft[t].pc = "start"
    /\ LimiterLockFree
    /\ asyncLock' = "held"
    /\ FGoto(t, "waiting")
    /\ UNCHANGED <<lim, fetchSem, maxConcurrent, outsideFetch>>

\* asyncio.Semaphore.acquire: waits while no permit is left
SemAcquire(sem) == sem - 1

SemCanAcquire(sem) == sem > 0

\* asyncio.Semaphore.release
SemRelease(sem) == sem + 1

\* a wait_async that keeps the limiter's lock until the caller has a permit
\* of the semaphore
WaitAsyncLeaveThroughGate(t) ==
    /\ ft[t].pc = "waiting"
    /\ SemCanAcquire(fetchSem)
    /\ fetchSem' = SemAcquire(fetchSem)
    /\ asyncLock' = "none"
    /\ FGoto(t, "inflight")
    /\ UNCHANGED <<lim, maxConcurrent, outsideFetch>>

\* wait_async left: the issue time is stamped and the lock released
WaitAsyncLeave(t) ==
    /\ ft[t].pc = "waiting"
    /\ asyncLock' = "none"
    /\ FGoto(t, "gate")
    /\ UNCHANGED <<lim, fetchSem, maxConcurrent, outsideFetch>>

\* IssueRequest taking a permit without waiting for one
IssueRequestUnguarded(t) ==
    /\ ft[t].pc = "gate"
    /\ fetchSem' = SemAcquire(fetchSem)
    /\ FGoto(t, "inflight")
    /\ UNCHANGED <<lim, asyncLock, maxConcurrent, outsideFetch>>

\* `async with self.semaphore:` entered and session.get issued
IssueRequest(t) ==
    /\ ft[t].pc = "gate"
    /\ SemCanAcquire(fetchSem)
    /\ fetchSem' = SemAcquire(fetchSem)
    /\ FGoto(t, "inflight")
    /\ UNCHANGED <<lim, asyncLock, maxConcurrent, outsideFetch>>

\* the response's status arrives
Respond(t) ==
    /\ ft[t].pc = "inflight"
    /\ \E s \in {"200", "429", "other"} :
          ft' = [ft EXCEPT ![t].pc = "report", ![t].status = s]
    /\ UNCHANGED <<lim, asyncLock, fetchSem, maxConcurrent, outsideFetch>>

\* session.get raises (a timeout or a transport error): the semaphore block is left
RequestRaises(t) ==
    /\ ft[t].pc = "inflight"
    /\ fetchSem' = SemRelease(fetchSem)
    /\ FGoto(t, "handler")
    /\ UNCHANGED <<lim, asyncLock, maxConcurrent, outsideFetch>>

\* the limiter call an attempt makes after a status, or in an except clause
Report(after) ==
    [after |-> after,
     call |-> CASE after = "200" -> "record_success_async()"
                [] after = "429" -> "record_error_async(is_rate_limit=True)"
                [] OTHER -> "record_error_async()"]

\* the status is reported to the limiter inside the semaphore block; a non-200
\* status then leaves the block
ReportStatus(t) ==
    /\ ft[t].pc = "report"
    /\ LimiterLockFree
    /\ asyncLock' = "none"
    /\ IF ft[t].status = "200"
       THEN /\ lim' = RecordSuccessAsync(lim)
            /\ ft' = [ft EXCEPT ![t].pc = "text", ![t].status = "none",
                                ![t].reported = Append(@, Report(ft[t].status))]
            /\ UNCHANGED fetchSem
       ELSE /\ lim' = RecordErrorAsync(lim, ft[t].status = "429")
            /\ ft' = [ft EXCEPT ![t].pc = "backoff", ![t].status = "none",
                                ![t].reported = Append(@, Report(ft[t].status))]
            /\ fetchSem' = SemRelease(fetchSem)
    /\ UNCHANGED <<maxConcurrent, outsideFetch>>

\* `return await response.text()`: the body is returned, leaving the semaphore block
ReadText(t) ==
    /\ ft[t].pc = "text"
    /\ fetchSem' = SemRelease(fetchSem)
    /\ ft' = [ft EXCEPT ![t].pc = "done", ![t].result = "html"]
    /\ UNCHANGED <<lim, asyncLock, maxConcurrent, outsideFetch>>

\* reading the body raises: the semaphore block is left for the handler
ReadTextRaises(t) ==
    /\ ft[t].pc = "text"
    /\ fetchSem' = SemRelease(fetchSem)
    /\ FGoto(t, "handler")
    /\ UNCHANGED <<lim, asyncLock, maxConcurrent, outsideFetch>>

\* `except asyncio.TimeoutError` / `except Exception`: a generic error is recorded
HandleError(t) ==
    /\ ft[t].pc = "handler"
    /\ LimiterLockFree
    /\ asyncLock' = "none"
    /\ lim' = RecordErrorAsync(lim, FALSE)
    /\ ft' = [ft EXCEPT ![t].pc = "backoff", ![t].reported = Append(@, Report("exception"))]
    /\ UNCHANGED <<fetchSem, maxConcurrent, outsideFetch>>

\* the end of an attempt: sleep 2 ** attempt and retry, or return None
Backoff(t) ==
    /\ ft[t].pc = "backoff"
    /\ IF ft[t].attempt < FetchRetries - 1
       THEN ft' = [ft EXCEPT ![t].pc = "start", ![t].attempt = @ + 1, ![t].reported = << >>]
       ELSE ft' = [ft EXCEPT ![t].pc = "done", ![t].result = "none"]
    /\ UNCHANGED <<lim, asyncLock, fetchSem, maxConcurrent, outsideFetch>>

\* what the event loop can run of fetch_page call t
FetchStep(t) ==
    /\ t \in DOMAIN ft
    /\ \/ GetSession(t)
       \/ WaitAsyncEnter(t)
       \/ WaitAsyncLeave(t)
       \/ IssueRequest(t)
       \/ Respond(t)
       \/ RequestRaises(t)
       \/ ReportStatus(t)
       \/ ReadText(t)
       \/ ReadTextRaises(t)
       \/ HandleError(t)
       \/ Backoff(t)

NextFetch == \E t \in Fetchers : FetchStep(t)

SpecFetch == InitFetch /\ [][NextFetch]_vars

\* the fetch_page calls whose listing request is in flight: issued, and the
\* response not yet consumed or failed
InFlight == {t \in Fetchers : ft[t].pc \in {"inflight", "report", "text"}}

(***************************************************************************)
(* AsyncAISummarizer: batch_summarize with one generate_summary call per   *)
(* candidate, a detailed-report call and a streaming-report call, all      *)
(* tasks of one event loop sharing the summarizer's semaphore.             *)
(* A text is a sequence of tokens.                                         *)
(***************************************************************************)
\* the prefix of the summary of an item whose call raised (the code's "摘要生成失败: ")
FailedMarker == <<"SUMMARY_FAILED: ">>

\* the prefix of the summary of an item whose call returned nothing (the code's "项目简介: ")
IntroMarker == <<"PROJECT_INTRO: ">>

\* the description of the i-th explored candidate; every third has none
DescriptionOf(i) == IF i % 3 = 0 THEN << >> ELSE <<IF i % 3 = 1 THEN "d1" ELSE "d2">>

NameOf(i) == <<"owner/repo", IF i % 2 = 1 THEN "a" ELSE "b", IF i > 2 THEN "x" ELSE "y">>

Candidate(i) == [name |-> NameOf(i), description |-> DescriptionOf(i)]

\* what a provider call can return, stripped: nothing, or a text
ProviderTexts == {<< >>, <<"s1">>}

NoSummary == [kind |-> "none", text |-> << >>]

RaisedSummary == [kind |-> "exc", text |-> << >>]

TextSummary(t) == [kind |-> "text", text |-> t]

Items == 1 .. Len(batch)

Returned(repos) == [returned |-> TRUE, repos |-> repos]

InitSumm ==
    /\ \E n \in 0 .. MaxBatch : batch = [i \in 1 .. n |-> Candidate(i)]
    /\ modelReady \in BOOLEAN
    /\ summMax \in 1 .. MaxSummPermits
    /\ summSem = summMax
    /\ st = << >>
    /\ aux = [report |-> "idle", stream |-> "idle", chunks |-> 0]
    /\ output = [returned |-> FALSE, repos |-> << >>]
    /\ \E r \in {<<1, 1>>} : lim = NewLimiter(r, <<1, 10>>, <<10, 1>>)
    /\ asyncLock = "unset"
    /\ lastOp = "init"
    /\ prevInterval = lim.current_interval
    /\ nadj = 0
    /\ runLen = 0
    /\ runStart = lim.current_interval
    /\ ConcIdle
    /\ FetchIdle
    /\ RunIdle
    /\ UnitsIdle

\* the loop of batch_summarize over zip(repos, summaries): one output per pair
SummaryFor(repo, summary) ==
    IF summary.kind = "exc"
    THEN FailedMarker \o repo.description
    ELSE IF summary.kind = "text" /\ summary.text # << >>
         THEN summary.text
         ELSE IntroMarker \o repo.description

\* repo.copy() with the key ai_summary set
WithSummary(repo, summary) ==
    [f \in DOMAIN repo \cup {"ai_summary"} |->
        IF f = "ai_summary" THEN SummaryFor(repo, summary) ELSE repo[f]]

\* CollectSummaries keeping only the candidates whose call returned a text
CollectSummariesDroppingFailed(repos, summaries) ==
    LET kept == SelectSeq([i \in 1 .. Len(repos) |-> i], LAMBDA i : summaries[i].kind = "text")
    IN  [k \in 1 .. Len(kept) |-> WithSummary(repos[kept[k]], summaries[kept[k]])]

CollectSummaries(repos, summaries) ==
    [i \in 1 .. Len(repos) |-> WithSummary(repos[i], summaries[i])]

\* batch_summarize up to the gather: nothing to do, no usable model, or one task per candidate
BatchStart ==
    /\ ~output.returned
    /\ st = << >>
    /\ IF batch = << >>
       THEN output' = Returned(<< >>) /\ UNCHANGED st
       ELSE IF ~modelReady
            THEN output' = Returned(batch) /\ UNCHANGED st
            ELSE /\ st' = [i \in Items |-> [pc |-> "new", attempt |-> 0, result |-> NoSummary,
                                            calls |-> 0, sleeps |-> << >>]]
                 /\ UNCHANGED output
    /\ UNCHANGED <<batch, modelReady, aux, summSem, summMax, outsideSumm>>

Running == st # << >> /\ ~output.returned

\* generate_summary: the prompt is formatted, or formatting it raises
BuildPrompt(i) ==
    /\ Running /\ st[i].pc = "new"
    /\ \/ st' = [st EXCEPT ![i].pc = "wait"]
       \/ st' = [st EXCEPT ![i].pc = "done", ![i].result = RaisedSummary]
    /\ UNCHANGED <<batch, modelReady, aux, summSem, summMax, output, outsideSumm>>

\* CallProvider taking a permit without waiting for one
CallProviderUnguarded(i) ==
    /\ Running /\ st[i].pc = "wait"
    /\ summSem' = SemAcquire(summSem)
    /\ st' = [st EXCEPT ![i].pc = "calling", ![i].calls = @ + 1]
    /\ UNCHANGED <<batch, modelReady, aux, summMax, output, outsideSumm>>

\* `async with self.semaphore:` entered and the provider called
CallProvider(i) ==
    /\ Running /\ st[i].pc = "wait"
    /\ SemCanAcquire(summSem)
    /\ summSem' = SemAcquire(summSem)
    /\ st' = [st EXCEPT ![i].pc = "calling", ![i].calls = @ + 1]
    /\ UNCHANGED <<batch, modelReady, aux, summMax, output, outsideSumm>>

\* the provider answers: the stripped content is returned
ProviderReturns(i) ==
    /\ Running /\ st[i].pc = "calling"
    /\ summSem' = SemRelease(summSem)
    /\ \E t \in ProviderTexts :
          st' = [st EXCEPT ![i].pc = "done", ![i].result = TextSummary(t)]
    /\ UNCHANGED <<batch, modelReady, aux, summMax, output, outsideSumm>>

\* a backoff that also sleeps after the last attempt
SummaryBackoffAlways(attempt, retries) == <<Pow2(attempt)>>

\* the except clause's `if attempt < retries - 1: await asyncio.sleep(2 ** attempt)`
SummaryBackoff(attempt, retries) == IF attempt < retries - 1 THEN <<Pow2(attempt)>> ELSE << >>

\* `for attempt in range(retries)` after a failed attempt: the next attempt,
\* or the loop is over and None is returned
NextAttempt(s, retries) ==
    IF s.attempt + 1 < retries
    THEN [s EXCEPT !.pc = "wait", !.attempt = @ + 1]
    ELSE [s EXCEPT !.pc = "done", !.attempt = @ + 1, !.result = NoSummary]

\* the provider call, or reading the content of its response, raises: the
\* semaphore block is left for the except clause, which starts the backoff sleep
ProviderRaises(i) ==
    /\ Running /\ st[i].pc = "calling"
    /\ summSem' = SemRelease(summSem)
    /\ LET sleep == SummaryBackoff(st[i].attempt, SummaryRetries)
       IN  st' = [st EXCEPT ![i] = IF sleep = << >>
                                   THEN NextAttempt(@, SummaryRetries)
                                   ELSE [@ EXCEPT !.pc = "backoff", !.sleeps = @ \o sleep]]
    /\ UNCHANGED <<batch, modelReady, aux, summMax, output, outsideSumm>>

\* the backoff sleep is over
BackoffOver(i) ==
    /\ Running /\ st[i].pc = "backoff"
    /\ st' = [st EXCEPT ![i] = NextAttempt(@, SummaryRetries)]
    /\ UNCHANGED <<batch, modelReady, aux, summSem, summMax, output, outsideSumm>>

\* asyncio.gather returned, every task having finished: the summaries in task order
Gather ==
    /\ Running
    /\ \A i \in Items : st[i].pc = "done"
    /\ output' = Returned(CollectSummaries(batch, [i \in Items |-> st[i].result]))
    /\ UNCHANGED <<batch, modelReady, st, aux, summSem, summMax, outsideSumm>>

\* _call_ai_for_detailed_report: one provider call inside the semaphore block
ReportCall ==
    /\ modelReady
    /\ \/ /\ aux.report = "idle"
          /\ aux' = [aux EXCEPT !.report = "wait"]
          /\ UNCHANGED summSem
       \/ /\ aux.report = "wait"
          /\ SemCanAcquire(summSem)
          /\ summSem' = SemAcquire(summSem)
          /\ aux' = [aux EXCEPT !.report = "calling"]
    /\ UNCHANGED <<batch, modelReady, st, summMax, output, outsideSumm>>

\* the detailed-report call returns or raises: either way the block is left
ReportEnd ==
    /\ aux.report = "calling"
    /\ summSem' = SemRelease(summSem)
    /\ \E r \in {"success", "failure"} : aux' = [aux EXCEPT !.report = r]
    /\ UNCHANGED <<batch, modelReady, st, summMax, output, outsideSumm>>

\* generate_detailed_report_stream up to the provider call
StreamCall ==
    /\ modelReady
    /\ \/ /\ aux.stream = "idle"
          /\ aux' = [aux EXCEPT !.stream = "wait"]
          /\ UNCHANGED summSem
       \/ /\ aux.stream = "wait"
          /\ SemCanAcquire(summSem)
          /\ summSem' = SemAcquire(summSem)
          /\ aux' = [aux EXCEPT !.stream = "creating"]
    /\ UNCHANGED <<batch, modelReady, st, summMax, output, outsideSumm>>

\* the stream is open and a chunk is yielded as a partial event, inside the block
StreamChunk ==
    /\ aux.stream \in {"creating", "streaming"}
    /\ aux.chunks < MaxChunks
    /\ aux' = [aux EXCEPT !.stream = "streaming", !.chunks = @ + 1]
    /\ UNCHANGED <<batch, modelReady, st, summSem, summMax, output, outsideSumm>>

\* the stream ends, the call or the stream raises, or the consumer closes the
\* generator at a partial event: the block is left
StreamEnd ==
    /\ aux.stream \in {"creating", "streaming"}
    /\ summSem' = SemRelease(summSem)
    /\ \E r \in {"complete", "error", "closed"} :
          /\ r = "complete" => aux.stream = "streaming" \/ aux.chunks = 0
          /\ r = "closed" => aux.stream = "streaming"
          /\ aux' = [aux EXCEPT !.stream = r]
    /\ UNCHANGED <<batch, modelReady, st, summMax, output, outsideSumm>>

NextSumm ==
    \/ BatchStart
    \/ \E i \in DOMAIN st : BuildPrompt(i)
    \/ \E i \in DOMAIN st : CallProvider(i)
    \/ \E i \in DOMAIN st : ProviderReturns(i)
    \/ \E i \in DOMAIN st : ProviderRaises(i)
    \/ \E i \in DOMAIN st : BackoffOver(i)
    \/ Gather
    \/ ReportCall
    \/ ReportEnd
    \/ StreamCall
    \/ StreamChunk
    \/ StreamEnd

SpecSumm == InitSumm /\ [][NextSumm]_vars

\* the provider calls in flight
CallsInFlight ==
    Cardinality({i \in DOMAIN st : st[i].pc = "calling"})
    + (IF aux.report = "calling" THEN 1 ELSE 0)
    + (IF aux.stream \in {"creating", "streaming"} THEN 1 ELSE 0)

\* whether text `sub` occurs in text `t`
Contains(t, sub) ==
    \E k \in 1 .. Len(t) - Len(sub) + 1 : SubSeq(t, k, k + Len(sub) - 1) = sub

(***************************************************************************)
(* TrendingPush.run_task_async: one run of the pipeline, a step per stage. *)
(* A stage that calls a collaborator may find it raising.                  *)
(***************************************************************************)
TimeRanges == {"daily", "weekly", "monthly"}

\* the listing entries a fetched page is made of, as the parser reads them
Entries ==
    {[name |-> "a/x", description |-> <<"d1">>, language |-> "Python", stars |-> 500, stars_daily |-> 50],
     [name |-> "b/y", description |-> <<"d2">>, language |-> "Python", stars |-> 50, stars_daily |-> 50],
     [name |-> "c/z", description |-> << >>, language |-> "Go", stars |-> 500, stars_daily |-> 5]}

EntryNames == {e.name : e \in Entries}

RECURSIVE SeqsUpTo(_, _)
SeqsUpTo(S, n) ==
    IF n = 0 THEN {<< >>}
    ELSE LET shorter == SeqsUpTo(S, n - 1)
         IN  shorter \cup {Append(q, x) : q \in {r \in shorter : Len(r) = n - 1}, x \in S}

\* the filters section of the configuration
FilterConfig ==
    [min_total_stars     |-> 100,
     min_stars_increment |-> [daily |-> 10, weekly |-> 50, monthly |-> 100],
     language_whitelist  |-> env.languages.whitelist,
     language_blacklist  |-> env.languages.blacklist]

\* the language allow and deny lists a run's filter is configured with
LanguageConfigs ==
    {[whitelist |-> {}, blacklist |-> {}],
     [whitelist |-> {}, blacklist |-> {"Go"}],
     [whitelist |-> {"Go"}, blacklist |-> {}]}

\* the summary cache a run starts with: empty, or holding a summary of a/x
\* that a run for another range saved earlier the same day
CachedSummaries == {{}, {<<"a/x", <<"s0">>>>}}

\* the subscription keywords a run is configured with
KeywordConfigs == {{}, {"d1"}}

\* what one generate_summary call of a run's batch can come to
SummaryOutcomes == {NoSummary, TextSummary(<<"s1">>)}

NewTaskResult(task_type) ==
    [success |-> FALSE, task_type |-> task_type, repos_found |-> 0,
     repos_after_filter |-> 0, email_sent |-> FALSE, error_message |-> "None"]

\* DataRepository.get_seen_projects
SeenProjects(records, time_range) == {rec[1] : rec \in {x \in records : x[2] = time_range}}

InitRun ==
    /\ \E tr \in TimeRanges, su \in BOOLEAN, pg \in SeqsUpTo(Entries, MaxPage), kw \in KeywordConfigs,
          lg \in LanguageConfigs :
          env = [time_range |-> tr, is_startup |-> su, page |-> pg, keywords |-> kw, languages |-> lg]
    /\ \E seen \in SUBSET EntryNames, cached \in CachedSummaries :
          store = [records |-> {<<n, env.time_range>> : n \in seen}, summaries |-> cached, backup |-> {}]
    /\ run = [pc |-> "scrape", repos |-> << >>, result |-> NewTaskResult(env.time_range),
              seen0 |-> SeenProjects(store.records, env.time_range),
              handed |-> [called |-> FALSE, repos |-> << >>],
              dedup |-> [done |-> FALSE, candidates |-> << >>, returned |-> << >>,
                         reported |-> FALSE, removed |-> 0],
              raised |-> {}, outcome |-> "none"]
    /\ sent = << >>
    /\ \E r \in {<<1, 1>>} : lim = NewLimiter(r, <<1, 10>>, <<10, 1>>)
    /\ asyncLock = "unset"
    /\ lastOp = "init"
    /\ prevInterval = lim.current_interval
    /\ nadj = 0
    /\ runLen = 0
    /\ runStart = lim.current_interval
    /\ ConcIdle
    /\ FetchIdle
    /\ SummIdle
    /\ UnitsIdle

\* parse_trending_page: one candidate per listing entry, in page order
ParsePage(page) == page

\* `return result`
Return(r) == [r EXCEPT !.pc = "returned"]

\* the early returns: `result.success = True; return result`
ReturnEmpty(r) == Return([r EXCEPT !.result.success = TRUE])

\* str(e) of the exceptions a stage raises
ExceptionMessages == {"", "boom"}

\* a run_task_async without the handler: the exception leaves the coroutine
Propagate(r, stage, message) ==
    [r EXCEPT !.pc = "raised", !.raised = @ \cup {stage}]

\* `except Exception as e:` of run_task_async
OnException(r, stage, message) ==
    Return([r EXCEPT !.result.error_message = message, !.raised = @ \cup {stage}])

\* a stage is left with the candidates `repos`
Advance(r, pc, repos) == [r EXCEPT !.pc = pc, !.repos = repos]

\* scraper.scrape_trending_by_range: the parsed page, nothing (the fetch was
\* refused or failed), or an exception
Scrape ==
    /\ run.pc = "scrape"
    /\ \/ \E repos \in {ParsePage(env.page), << >>} :
             run' = IF repos = << >>
                    THEN ReturnEmpty(run)
                    ELSE [Advance(run, "dedup", repos) EXCEPT !.result.repos_found = Len(repos)]
       \/ \E message \in ExceptionMessages : run' = OnException(run, "scrape", message)
    /\ UNCHANGED <<env, store, sent, outsideRun>>

\* _filter_duplicates with the seen-set read
FilterDuplicates(repos, seen_projects) == SelectSeq(repos, LAMBDA repo : repo.name \notin seen_projects)

\* _filter_duplicates: when reading the seen-set raises, the candidates are returned as they came
Dedup ==
    /\ run.pc = "dedup"
    /\ \/ LET new_repos == FilterDuplicates(run.repos, SeenProjects(store.records, env.time_range))
              filtered_count == Len(run.repos) - Len(new_repos)
              after == [run EXCEPT !.dedup = [done |-> TRUE, candidates |-> run.repos, returned |-> new_repos,
                                              reported |-> TRUE, removed |-> filtered_count]]
          IN  run' = IF new_repos = << >> THEN ReturnEmpty(after) ELSE Advance(after, "filter", new_repos)
       \/ LET after == [run EXCEPT !.dedup = [done |-> TRUE, candidates |-> run.repos, returned |-> run.repos,
                                              reported |-> FALSE, removed |-> 0]]
          IN  run' = [Advance(after, "filter", run.repos) EXCEPT !.raised = @ \cup {"dedup"}]
    /\ UNCHANGED <<env, store, sent, outsideRun>>

\* stars_key = f'stars_{time_range}'
StarsKey(time_range) ==
    CASE time_range = "daily" -> "stars_daily"
      [] time_range = "weekly" -> "stars_weekly"
      [] time_range = "monthly" -> "stars_monthly"

\* repo.get(stars_key, 0): the parser sets the key stars_daily only
StarsIncrement(repo, time_range) ==
    IF StarsKey(time_range) \in DOMAIN repo THEN repo[StarsKey(time_range)] ELSE 0

\* a filter_by_stars that compares every increment, a zero one too
FilterByStarsZeroCompared(min_total_stars, min_increment, repos, time_range, ignore_thresholds) ==
    IF ignore_thresholds THEN repos
    ELSE SelectSeq(repos, LAMBDA repo :
             /\ ~(repo.stars < min_total_stars)
             /\ ~(min_increment > 0 /\ StarsIncrement(repo, time_range) < min_increment))

\* ProjectFilter.filter_by_stars, of a filter configured with the star floor
\* min_total_stars and, for the range, the increment floor min_increment
FilterByStarsWith(min_total_stars, min_increment, repos, time_range, ignore_thresholds) ==
    IF ignore_thresholds THEN repos
    ELSE LET Keep(repo) ==
                 /\ ~(repo.stars < min_total_stars)
                 /\ ~(/\ min_increment > 0
                      /\ StarsIncrement(repo, time_range) > 0
                      /\ StarsIncrement(repo, time_range) < min_increment)
         IN  SelectSeq(repos, Keep)

\* ProjectFilter.filter_by_stars of the run's filter
FilterByStars(repos, time_range, ignore_thresholds) ==
    FilterByStarsWith(FilterConfig.min_total_stars, FilterConfig.min_stars_increment[time_range],
                      repos, time_range, ignore_thresholds)

\* ProjectFilter.filter_by_language
FilterByLanguage(repos) ==
    LET Keep(repo) ==
            /\ ~(FilterConfig.language_whitelist # {} /\ repo.language \notin FilterConfig.language_whitelist)
            /\ ~(FilterConfig.language_blacklist # {} /\ repo.language \in FilterConfig.language_blacklist)
    IN  SelectSeq(repos, Keep)

\* a filter_all that applies the floors whatever ignore_thresholds says
FilterAllWithFloors(repos, time_range, ignore_thresholds) ==
    FilterByLanguage(FilterByStars(repos, time_range, FALSE))

\* ProjectFilter.filter_all
FilterAll(repos, time_range, ignore_thresholds) ==
    FilterByLanguage(FilterByStars(repos, time_range, ignore_thresholds))

Filter ==
    /\ run.pc = "filter"
    /\ \/ LET filtered == FilterAll(run.repos, env.time_range, env.is_startup)
          IN  run' = IF filtered = << >>
                     THEN ReturnEmpty(run)
                     ELSE [Advance(run, "keyword", filtered) EXCEPT !.result.repos_after_filter = Len(filtered)]
       \/ \E message \in ExceptionMessages : run' = OnException(run, "filter", message)
    /\ UNCHANGED <<env, store, sent, outsideRun>>

\* KeywordMatcher.match_repo in exact mode over the fields name and description
MatchRepo(repo, keywords) == \E k \in keywords : Contains(repo.description, <<k>>) \/ repo.name = k

\* KeywordMatcher.filter_repos
FilterRepos(repos, keywords) ==
    IF keywords = {} THEN repos ELSE SelectSeq(repos, LAMBDA repo : MatchRepo(repo, keywords))

\* the keyword stage: the matches replace the candidates when there are any
Keyword ==
    /\ run.pc = "keyword"
    /\ \/ LET matched_repos == FilterRepos(run.repos, env.keywords)
          IN  run' = Advance(run, "save",
                             IF env.keywords # {} /\ matched_repos # << >> THEN matched_repos ELSE run.repos)
       \/ env.keywords # {} /\ \E message \in ExceptionMessages : run' = OnException(run, "keyword", message)
    /\ UNCHANGED <<env, store, sent, outsideRun>>

Names(repos) == {repos[i].name : i \in 1 .. Len(repos)}

\* _save_data: the trending records are saved, or the JSON backup is written
\* instead, or the backup raises too
Save ==
    /\ run.pc = "save"
    /\ \/ /\ store' = [store EXCEPT !.records = @ \cup {<<n, env.time_range>> : n \in Names(run.repos)}]
          /\ run' = Advance(run, "summarize", run.repos)
       \/ /\ store' = [store EXCEPT !.backup = @ \cup {<<n, env.time_range>> : n \in Names(run.repos)}]
          /\ run' = [Advance(run, "summarize", run.repos) EXCEPT !.raised = @ \cup {"save"}]
       \/ /\ \E message \in ExceptionMessages : run' = OnException(run, "save", message)
          /\ UNCHANGED store
    /\ UNCHANGED <<env, sent, outsideRun>>

\* a run in which a failed summarization ends the run like any other exception
AbortOnSummaryException(r, stage) == OnException(r, stage, "boom")

\* `except Exception as e:` around summarization: continue without summaries
OnSummaryException(r, stage) ==
    [r EXCEPT !.pc = "notify", !.repos = r.handed.repos, !.raised = @ \cup {stage}]

\* summarizer.batch_summarize(repos): the candidates with their summaries, the
\* candidates as they are (no usable model), or an exception
Summarize ==
    /\ run.pc = "summarize"
    /\ LET given == [run EXCEPT !.handed = [called |-> TRUE, repos |-> run.repos]]
       IN  \/ \E summaries \in [1 .. Len(run.repos) -> SummaryOutcomes] :
                 run' = Advance(given, "save_summaries", CollectSummaries(run.repos, summaries))
           \/ run' = Advance(given, "save_summaries", run.repos)
           \/ run' = OnSummaryException(given, "summarize")
    /\ UNCHANGED <<env, store, sent, outsideRun>>

HasSummary(repo) == "ai_summary" \in DOMAIN repo /\ repo.ai_summary # << >>

\* the loop saving the summaries: save_ai_summary for each candidate that has
\* one; when a save raises after k candidates the run continues without summaries
SaveSummaries ==
    /\ run.pc = "save_summaries"
    /\ \E k \in 0 .. Len(run.repos) :
          /\ store' = [store EXCEPT !.summaries = @ \cup
                          {<<run.repos[i].name, run.repos[i].ai_summary>> :
                              i \in {j \in 1 .. k : HasSummary(run.repos[j])}}]
          /\ IF k = Len(run.repos)
             THEN run' = Advance(run, "notify", run.repos)
             ELSE /\ HasSummary(run.repos[k + 1])
                  /\ run' = OnSummaryException(run, "save_summaries")
    /\ UNCHANGED <<env, sent, outsideRun>>

\* mailer.send_trending_email and the end of the run; `outcome` keeps what the
\* notifier did: it returned True or False, or it raised
Notify ==
    /\ run.pc = "notify"
    /\ \/ /\ sent' = Append(sent, run.repos)
          /\ \E success \in BOOLEAN :
                run' = Return([run EXCEPT
                           !.outcome = IF success THEN "true" ELSE "false",
                           !.result.email_sent = success,
                           !.result.success = success,
                           !.result.error_message = IF success THEN @ ELSE "Email sending failed"])
       \/ /\ sent' = Append(sent, run.repos)
          /\ \E message \in ExceptionMessages :
                run' = OnException([run EXCEPT !.outcome = "raised"], "notify", message)
    /\ UNCHANGED <<env, store, outsideRun>>

NextRun ==
    \/ Scrape
    \/ Dedup
    \/ Filter
    \/ Keyword
    \/ Save
    \/ Summarize
    \/ SaveSummaries
    \/ Notify

SpecRun == InitRun /\ [][NextRun]_vars

\* whether a list of candidates names no identity twice
NoDuplicateNames(repos) ==
    \A i, j \in 1 .. Len(repos) : repos[i].name = repos[j].name => i = j

(***************************************************************************)
(* AdaptiveRateLimiter.wait / wait_async: callers in threads and in        *)
(* event-loop tasks, against a clock that advances in whole seconds.       *)
(***************************************************************************)
WaitThreads == {<<"thread", i>> : i \in 1 .. NumWaitThreads}

WaitTasks == {<<"task", i>> : i \in 1 .. NumWaitTasks}

Waiters == WaitThreads \cup WaitTasks

\* the limiters of the wait specification: intervals of 1 and 2 seconds
WaitRates == {<<1, 1>>, <<1, 2>>}

InitWait ==
    /\ \E r \in WaitRates : lim = NewLimiter(r, <<1, 10>>, <<10, 1>>)
    /\ lastOp = "init"
    /\ prevInterval = lim.current_interval
    /\ nadj = 0
    /\ runLen = 0
    /\ runStart = lim.current_interval
    /\ syncLock = "none"
    /\ asyncLock = "unset"
    /\ now = StartTime
    /\ lastRequestTime = 0
    /\ wt = [w \in Waiters |-> [pc |-> "idle", read |-> 0, elapsed |-> 0, interval |-> <<0, 1>>, calls |-> 0]]
    /\ stamps = << >>
    /\ ctx = [c \in {"thread", "task"} |-> [pc |-> "idle", op |-> "none", reg |-> 0,
                                           regI |-> <<0, 1>>, calls |-> 0]]
    /\ started = [success |-> 0, error |-> 0, throttle |-> 0]
    /\ FetchIdle
    /\ SummIdle
    /\ RunIdle
    /\ PureIdle
    /\ BackendsIdle
    /\ ScrapeIdle
    /\ ServiceIdle

\* time passes
Tick ==
    /\ now < StartTime + MaxTime
    /\ now' = now + 1
    /\ UNCHANGED <<lastRequestTime, wt, stamps, syncLock, asyncLock, outsideWait>>

\* `elapsed = time.time() - self.last_request_time`, under the caller's lock
ReadElapsed(w) ==
    wt' = [wt EXCEPT ![w] = [@ EXCEPT !.pc = "waiting",
                                      !.read = now,
                                      !.elapsed = now - lastRequestTime,
                                      !.interval = lim.current_interval]]

\* wait: `with self._sync_lock:` and the read of the clock
WaitEnter(w) ==
    /\ w \in WaitThreads
    /\ wt[w].pc = "idle" /\ wt[w].calls < MaxWaits
    /\ syncLock = "none"
    /\ syncLock' = "held"
    /\ ReadElapsed(w)
    /\ UNCHANGED <<now, lastRequestTime, stamps, asyncLock, outsideWait>>

\* wait_async: `async with self._get_async_lock():` and the read of the clock
WaitAsyncBegin(w) ==
    /\ w \in WaitTasks
    /\ wt[w].pc = "idle" /\ wt[w].calls < MaxWaits
    /\ asyncLock \in {"unset", "none"}
    /\ asyncLock' = "held"
    /\ ReadElapsed(w)
    /\ UNCHANGED <<now, lastRequestTime, stamps, syncLock, outsideWait>>

\* the sleep of `current_interval - elapsed` seconds is over (no sleep when
\* elapsed >= current_interval): the clock has advanced by at least that much
\* since it was read
Slept(w) ==
    RLeq(wt[w].interval, <<wt[w].elapsed + (now - wt[w].read), 1>>)

\* `self.last_request_time = time.time()` and the release of the caller's lock
Stamp(w) ==
    /\ wt[w].pc = "waiting"
    /\ Slept(w)
    /\ lastRequestTime' = now
    /\ stamps' = Append(stamps, [at |-> now, interval |-> wt[w].interval, by |-> w])
    /\ wt' = [wt EXCEPT ![w] = [@ EXCEPT !.pc = "idle", !.calls = @ + 1]]
    /\ IF w \in WaitThreads
       THEN syncLock' = "none" /\ UNCHANGED asyncLock
       ELSE asyncLock' = "none" /\ UNCHANGED syncLock
    /\ UNCHANGED <<now, outsideWait>>

NextWait ==
    \/ Tick
    \/ \E w \in Waiters : WaitEnter(w)
    \/ \E w \in Waiters : WaitAsyncBegin(w)
    \/ \E w \in Waiters : Stamp(w)

SpecWait == InitWait /\ [][NextWait]_vars

(***************************************************************************)
(* ProjectFilter.filter_by_stars applied to lists of candidates, under     *)
(* filters with and without floors.                                        *)
(***************************************************************************)
StarFloors == {0, 100}

IncrementFloors == {0, 10, 50}

StarCounts == {0, 99, 100, 500}

Increments == {0, 5, 10, 60}

\* candidates with and without the range's increment key
StarCandidates(time_range) ==
    {[name |-> "a/x", stars |-> s] : s \in StarCounts}
        \cup {[name |-> "a/x", stars |-> s] @@ (StarsKey(time_range) :> inc) :
                 s \in StarCounts, inc \in Increments}

InitStars ==
    /\ \E floor \in StarFloors, min_increment \in IncrementFloors, tr \in TimeRanges,
          ignore \in BOOLEAN :
          \E repos \in SeqsUpTo(StarCandidates(tr), MaxStarRepos) :
             call = [fn |-> "filter_by_stars", min_total_stars |-> floor,
                     min_increment |-> min_increment, repos |-> repos,
                     time_range |-> tr, ignore_thresholds |-> ignore]
    /\ ret = [done |-> FALSE]
    /\ CoreIdle
    /\ WaitIdle
    /\ BackendsIdle
    /\ ScrapeIdle
    /\ ServiceIdle

ApplyFilterByStars ==
    /\ call.fn = "filter_by_stars" /\ ~ret.done
    /\ ret' = [done |-> TRUE,
               value |-> FilterByStarsWith(call.min_total_stars, call.min_increment, call.repos,
                                           call.time_range, call.ignore_thresholds)]
    /\ UNCHANGED <<call, outsidePure>>

NextStars == ApplyFilterByStars

SpecStars == InitStars /\ [][NextStars]_vars

\* the elements of a list
Range(q) == {q[i] : i \in 1 .. Len(q)}

(***************************************************************************)
(* IncrementalSummaryManager.should_regenerate_summary.  None is the empty *)
(* sequence and a present value v is <<v>>; ages are whole days.           *)
(***************************************************************************)
None == << >>

\* cache_expiry_days, stars_growth_threshold (0.2 is 1/5) and force_refresh of the configuration
ExpiryDays == {1, 7}

GrowthThresholds == {<<0, 1>>, <<1, 5>>, <<1, 2>>}

\* get_summary_with_metadata: nothing, or the latest summary's age and the stored description
CacheEntries == {None} \cup {<<[age_days |-> a, description |-> d]>> : a \in {0, 7, 8}, d \in {"", "d1", "D1"}}

\* get_latest_stars: nothing, or the latest recorded star count
CachedStars == {None, <<0>>, <<100>>}

\* repo_data: description and stars of the candidate
RepoData == {[name |-> "a/x", description |-> d, stars |-> s] : d \in {"", "d1"}, s \in {0, 100, 119, 120, 150}}

Decision(regenerate, reason) == [raised |-> FALSE, regenerate |-> regenerate, reason |-> reason]

\* a growth rule that divides whatever the prior count is
StarsGrowthUnguarded(current_stars, cached_stars, threshold) ==
    IF cached_stars = None \/ cached_stars[1] = 0 THEN "raise"
    ELSE IF RLeq(threshold, <<current_stars - cached_stars[1], cached_stars[1]>>) THEN "regenerate" ELSE "pass"

\* a growth rule that asks for more than the threshold
StarsGrowthStrict(current_stars, cached_stars, threshold) ==
    IF cached_stars # None /\ cached_stars[1] > 0 /\ current_stars > 0
           /\ RLess(threshold, <<current_stars - cached_stars[1], cached_stars[1]>>)
    THEN "regenerate" ELSE "pass"

\* `if cached_stars and cached_stars > 0 and current_stars > 0:` and the
\* comparison `growth_rate >= self.stars_growth_threshold`
StarsGrowth(current_stars, cached_stars, threshold) ==
    IF cached_stars # None /\ cached_stars[1] > 0 /\ current_stars > 0
           /\ RLeq(threshold, <<current_stars - cached_stars[1], cached_stars[1]>>)
    THEN "regenerate" ELSE "pass"

\* should_regenerate_summary; the reason of a growth decision is modelled
\* without its percentage
ShouldRegenerateSummary(config, repo_data, summary_metadata, cached_stars) ==
    IF config.force_refresh THEN Decision(TRUE, "force_refresh")
    ELSE IF summary_metadata = None THEN Decision(TRUE, "no_cache")
    ELSE IF summary_metadata[1].age_days > config.cache_expiry_days THEN Decision(TRUE, "cache_expired")
    ELSE IF summary_metadata[1].description # repo_data.description THEN Decision(TRUE, "description_changed")
    ELSE LET growth == StarsGrowth(repo_data.stars, cached_stars, config.stars_growth_threshold)
         IN  IF growth = "raise" THEN [raised |-> TRUE, regenerate |-> FALSE, reason |-> "raised"]
             ELSE IF growth = "regenerate" THEN Decision(TRUE, "stars_growth")
             ELSE Decision(FALSE, "cache_hit")

InitRegen ==
    /\ \E force \in BOOLEAN, days \in ExpiryDays, threshold \in GrowthThresholds,
          repo_data \in RepoData, entry \in CacheEntries, prior \in CachedStars :
          call = [fn |-> "should_regenerate_summary",
                  config |-> [force_refresh |-> force, cache_expiry_days |-> days,
                              stars_growth_threshold |-> threshold],
                  repo_data |-> repo_data, summary_metadata |-> entry, cached_stars |-> prior]
    /\ ret = [done |-> FALSE]
    /\ CoreIdle
    /\ WaitIdle
    /\ BackendsIdle
    /\ ScrapeIdle
    /\ ServiceIdle

ApplyShouldRegenerate ==
    /\ call.fn = "should_regenerate_summary" /\ ~ret.done
    /\ ret' = [done |-> TRUE,
               value |-> ShouldRegenerateSummary(call.config, call.repo_data, call.summary_metadata,
                                                 call.cached_stars)]
    /\ UNCHANGED <<call, outsidePure>>

NextRegen == ApplyShouldRegenerate

SpecRegen == InitRegen /\ [][NextRegen]_vars

\* the conditions of the cache policy on the arguments of a call
CacheExpired == call.summary_metadata # None /\ call.summary_metadata[1].age_days > call.config.cache_expiry_days

DescriptionChanged ==
    call.summary_metadata # None /\ call.summary_metadata[1].description # call.repo_data.description

\* the growth ratio (current - prior) / prior is defined
GrowthDefined == call.cached_stars # None /\ call.cached_stars[1] # 0

GrowthRatio == <<call.repo_data.stars - call.cached_stars[1], call.cached_stars[1]>>

(***************************************************************************)
(* AsyncAISummarizer._parse_report_json, _create_fallback_report and       *)
(* _validate_report_structure.  A JSON value is a record of its type t and *)
(* its size n (items of a list, characters of a string, dimensions of a    *)
(* scores object); an object at the root carries its fields.               *)
(***************************************************************************)
JValue(t, n) == [t |-> t, src |-> "json", n |-> n]

Literal(text, n) == [t |-> "str", src |-> text, n |-> n]

EmptyList == [t |-> "list", src |-> "default", n |-> 0]

EmptyDict == [t |-> "obj", src |-> "default", n |-> 0]

JObject(fields) == [t |-> "obj", fields |-> fields]

\* the list fields of a report and the length each is cut to
ListCaps ==
    [key_features |-> 6, tech_stack |-> 8, use_cases |-> 5, limitations |-> 4,
     learning_resources |-> 4, integration_examples |-> 3, faq |-> 5]

ListFields == DOMAIN ListCaps

ScoreDimensions == <<"architecture", "code_quality", "documentation", "community", "innovation">>

\* one optional field of an object
Field(key, values) == {<< >>} \cup {key :> v : v \in values}

\* the objects a model output can hold: fields missing, of the right type
\* and of a wrong one
ReportObjects ==
    {JObject(a @@ b @@ c @@ d @@ e) :
        a \in Field("executive_summary", {JValue("str", 40)}),
        b \in Field("scores", {JValue("obj", 0), JValue("obj", 2), JValue("obj", 5),
                               JValue("list", 5), JValue("str", 3)}),
        c \in Field("key_features", {JValue("list", 0), JValue("list", 6), JValue("list", 7),
                                     JValue("str", 7), JValue("num", 1), JValue("null", 0)}),
        d \in Field("faq", {JValue("list", 5), JValue("list", 6), JValue("obj", 1)}),
        e \in {<< >>,
               [tech_stack |-> JValue("list", 9), use_cases |-> JValue("list", 6),
                limitations |-> JValue("list", 5), learning_resources |-> JValue("list", 5),
                integration_examples |-> JValue("list", 4)]}}

\* valid JSON that is not an object
NonObjects == {JValue("list", 2), JValue("str", 5), JValue("num", 1), JValue("null", 0)}

\* a model output: its length, whether it holds a fenced block, and what
\* json.loads makes of the block (of the whole text when there is none)
RawOutputs ==
    {[chars |-> n, fenced |-> f, valid |-> FALSE] : n \in {10, ExcerptChars, ExcerptChars + 1}, f \in BOOLEAN}
        \cup {[chars |-> 0, fenced |-> FALSE, valid |-> FALSE]}
        \cup {[chars |-> 300, fenced |-> f, valid |-> TRUE, value |-> v] :
                 f \in BOOLEAN, v \in ReportObjects \cup NonObjects}

Min(a, b) == IF a < b THEN a ELSE b

\* raw_content[:500]
Excerpt(raw_content) == [t |-> "str", src |-> "raw_content", n |-> Min(raw_content.chars, ExcerptChars)]

\* _create_fallback_report
CreateFallbackReport(raw_content) ==
    JObject([executive_summary |-> IF raw_content.chars # 0 THEN Excerpt(raw_content)
                                   ELSE Literal("Analysis unavailable", 20),
             scores |-> EmptyDict,
             key_features |-> EmptyList, tech_stack |-> EmptyList, use_cases |-> EmptyList,
             limitations |-> EmptyList, learning_resources |-> EmptyList])

\* dict.get(key, default)
Get(fields, key, default) == IF key \in DOMAIN fields THEN fields[key] ELSE default

\* value[:cap] of a list or a string; other values cannot be sliced
Sliceable(value) == value.t \in {"list", "str"}

\* a slice that keeps everything
SliceAll(value, cap) == value

Slice(value, cap) == [value EXCEPT !.n = Min(@, cap)]

\* report.get('scores', {}).get(dimension, default_score)
ScoreOf(scores, k) == IF k <= scores.n THEN "given" ELSE "default_score"

\* _validate_report_structure: AttributeError when the report or its scores
\* have no get, TypeError when a list field cannot be sliced
ValidateReportStructure(report) ==
    IF report.t # "obj" THEN [raised |-> TRUE]
    ELSE LET scores == Get(report.fields, "scores", EmptyDict)
         IN  IF scores.t # "obj" THEN [raised |-> TRUE]
             ELSE IF \E f \in ListFields : ~Sliceable(Get(report.fields, f, EmptyList)) THEN [raised |-> TRUE]
             ELSE [raised |-> FALSE,
                   executive_summary |-> Get(report.fields, "executive_summary", Literal("No summary available", 20)),
                   scores |-> [k \in DOMAIN ScoreDimensions |-> ScoreOf(scores, k)],
                   lists |-> [f \in ListFields |-> Slice(Get(report.fields, f, EmptyList), ListCaps[f])]]

\* _parse_report_json
ParseReportJson(raw_content) ==
    ValidateReportStructure(IF raw_content.valid THEN raw_content.value
                            ELSE CreateFallbackReport(raw_content))

InitReport ==
    /\ \E raw_content \in RawOutputs : call = [fn |-> "_parse_report_json", raw_content |-> raw_content]
    /\ ret = [done |-> FALSE]
    /\ CoreIdle
    /\ WaitIdle
    /\ BackendsIdle
    /\ ScrapeIdle
    /\ ServiceIdle

ApplyParseReportJson ==
    /\ call.fn = "_parse_report_json" /\ ~ret.done
    /\ ret' = [done |-> TRUE, value |-> ParseReportJson(call.raw_content)]
    /\ UNCHANGED <<call, outsidePure>>

NextReport == ApplyParseReportJson

SpecReport == InitReport /\ [][NextReport]_vars

(***************************************************************************)
(* AISummarizer.summarize: the enabled backends tried in order, each call  *)
(* returning a summary or raising.                                         *)
(***************************************************************************)
BackendNames == {"nvidia", "deepseek", "glm"}

\* ai_models.enabled: lists of distinct backends
EnabledLists ==
    {q \in SeqsUpTo(BackendNames, MaxBackends) : \A i, j \in 1 .. Len(q) : q[i] = q[j] => i = j}

\* repo_data, with and without a description
SummarizeInputs == {[name |-> "a/x", description |-> "d1"], [name |-> "a/x"]}

\* what a backend's summarize returns
BackendSummaries == {"s1", ""}

\* _init_clients: the enabled backends whose client was constructed
InitBackends ==
    /\ \E enabled \in EnabledLists, repo_data \in SummarizeInputs :
          \E clients \in SUBSET {enabled[i] : i \in 1 .. Len(enabled)} :
             sm = [pc |-> "enter", enabled |-> enabled, clients |-> clients, repo_data |-> repo_data,
                   k |-> 1, calls |-> << >>, result |-> [summary |-> "", model_used |-> "", success |-> FALSE]]
    /\ CoreIdle
    /\ WaitIdle
    /\ PureIdle
    /\ ScrapeIdle
    /\ ServiceIdle

\* {'summary': repo_data.get('description', 'No description'), 'model_used': 'fallback', 'success': False}
FallbackResult(repo_data) ==
    [summary |-> IF "description" \in DOMAIN repo_data THEN repo_data.description ELSE "No description",
     model_used |-> "fallback", success |-> FALSE]

\* `if not self.clients:` and the prompt
SummarizeEnter ==
    /\ sm.pc = "enter"
    /\ sm' = IF sm.clients = {}
             THEN [sm EXCEPT !.pc = "returned", !.result = FallbackResult(sm.repo_data)]
             ELSE [sm EXCEPT !.pc = "loop"]
    /\ UNCHANGED outsideBackends

\* `if model_name not in self.clients: continue`
SkipBackend ==
    /\ sm.pc = "loop" /\ sm.k <= Len(sm.enabled)
    /\ sm.enabled[sm.k] \notin sm.clients
    /\ sm' = [sm EXCEPT !.k = @ + 1]
    /\ UNCHANGED outsideBackends

Called(s, outcome, summary) ==
    Append(s.calls, [backend |-> s.enabled[s.k], outcome |-> outcome, summary |-> summary])

\* a loop that goes on to the next backend after a summary came back
KeepTrying(s, summary) ==
    [s EXCEPT !.calls = Called(s, "returned", summary), !.k = @ + 1,
              !.result = [summary |-> summary, model_used |-> s.enabled[s.k], success |-> TRUE]]

\* `return {'summary': summary, 'model_used': model_name, 'success': True}`
ReturnSummary(s, summary) ==
    [s EXCEPT !.calls = Called(s, "returned", summary), !.pc = "returned",
              !.result = [summary |-> summary, model_used |-> s.enabled[s.k], success |-> TRUE]]

\* self.clients[model_name].summarize(prompt) returns
BackendReturns ==
    /\ sm.pc = "loop" /\ sm.k <= Len(sm.enabled)
    /\ sm.enabled[sm.k] \in sm.clients
    /\ \E summary \in BackendSummaries : sm' = ReturnSummary(sm, summary)
    /\ UNCHANGED outsideBackends

\* self.clients[model_name].summarize(prompt) raises: `except Exception ... continue`
BackendRaises ==
    /\ sm.pc = "loop" /\ sm.k <= Len(sm.enabled)
    /\ sm.enabled[sm.k] \in sm.clients
    /\ sm' = [sm EXCEPT !.calls = Called(sm, "raised", ""), !.k = @ + 1]
    /\ UNCHANGED outsideBackends

\* the loop is over: the original description is returned
AllBackendsFailed ==
    /\ sm.pc = "loop" /\ sm.k > Len(sm.enabled)
    /\ sm' = [sm EXCEPT !.pc = "returned", !.result = FallbackResult(sm.repo_data)]
    /\ UNCHANGED outsideBackends

NextBackends ==
    \/ SummarizeEnter
    \/ SkipBackend
    \/ BackendReturns
    \/ BackendRaises
    \/ AllBackendsFailed

SpecBackends == InitBackends /\ [][NextBackends]_vars

\* the initialized backends in their configured order
Initialized == SelectSeq(sm.enabled, LAMBDA b : b \in sm.clients)

(***************************************************************************)
(* AsyncScraperTrending.scrape_trending_by_range with the fetch_page call  *)
(* it makes, and what run_task_async does with its outcome.                *)
(***************************************************************************)
\* can_fetch: the rules allow the URL, disallow it, or could not be loaded
RobotsAnswers == {"allowed", "disallowed", "unavailable"}

\* what an attempt's session.get comes to
AttemptOutcomes == {"200", "200 unreadable", "429", "500", "timeout", "error"}

\* the body of a 200 response: the listing page, an empty body, or a
\* document the parser rejects
Documents == {"listing", "empty", "unparseable"}

InitScrape ==
    /\ \E tr \in TimeRanges, pg \in SeqsUpTo(Entries, MaxPage) :
          env = [time_range |-> tr, is_startup |-> FALSE, page |-> pg, keywords |-> {},
                 languages |-> [whitelist |-> {}, blacklist |-> {}]]
    /\ store = [records |-> {}, summaries |-> {}, backup |-> {}]
    /\ run = [pc |-> "scrape", repos |-> << >>, result |-> NewTaskResult(env.time_range),
              seen0 |-> {},
              handed |-> [called |-> FALSE, repos |-> << >>],
              dedup |-> [done |-> FALSE, candidates |-> << >>, returned |-> << >>,
                         reported |-> FALSE, removed |-> 0],
              raised |-> {}, outcome |-> "none"]
    /\ sent = << >>
    /\ sc = [pc |-> "check", robots |-> "unasked", attempt |-> 0, requests |-> 0,
             limiter_calls |-> 0, fetch |-> "pending", repos |-> << >>]
    /\ lim = NewLimiter(<<2, 1>>, <<1, 2>>, <<5, 1>>)
    /\ lastOp = "init"
    /\ prevInterval = lim.current_interval
    /\ nadj = 0
    /\ runLen = 0
    /\ runStart = lim.current_interval
    /\ asyncLock = "unset"
    /\ ConcIdle
    /\ FetchIdle
    /\ SummIdle
    /\ WaitIdle
    /\ PureIdle
    /\ BackendsIdle
    /\ ServiceIdle

\* scrape_trending_by_range returns repos to run_task_async
ScrapeReturns(s, repos) ==
    /\ sc' = [s EXCEPT !.pc = "returned", !.repos = repos]
    /\ run' = IF repos = << >>
              THEN ReturnEmpty(run)
              ELSE [Advance(run, "dedup", repos) EXCEPT !.result.repos_found = Len(repos)]

\* an exception leaves scrape_trending_by_range
ScrapeRaises(s) ==
    /\ sc' = [s EXCEPT !.pc = "raised"]
    /\ \E message \in ExceptionMessages : run' = OnException(run, "scrape", message)

\* a check that lets every URL through
CanFetchAnything(answer) == TRUE

\* RobotsChecker.can_fetch: rules that could not be loaded allow the URL
CanFetch(answer) == answer # "disallowed"

\* `if not check_robots_permission(url): return []`
CheckRobots ==
    /\ sc.pc = "check"
    /\ \E answer \in RobotsAnswers :
          LET asked == [sc EXCEPT !.robots = answer]
          IN  IF CanFetch(answer)
              THEN sc' = [asked EXCEPT !.pc = "delay"] /\ UNCHANGED run
              ELSE ScrapeReturns(asked, << >>)
    /\ UNCHANGED <<lim, env, outsideScrape>>

\* get_recommended_delay and the sleep, then fetch_page's
\* `session = await self._get_session()`, which may raise
ScrapeGetSession ==
    /\ sc.pc = "delay"
    /\ \/ sc' = [sc EXCEPT !.pc = "wait"] /\ UNCHANGED run
       \/ ScrapeRaises([sc EXCEPT !.fetch = "raised"])
    /\ UNCHANGED <<lim, env, outsideScrape>>

\* `await self.rate_limiter.wait_async()`
ScrapeWait ==
    /\ sc.pc = "wait"
    /\ sc' = [sc EXCEPT !.pc = "request", !.limiter_calls = @ + 1]
    /\ UNCHANGED <<lim, env, run, outsideScrape>>

\* the limiter after an attempt
AfterAttempt(l, outcome) ==
    CASE outcome = "200" -> RecordSuccessAsync(l)
      [] outcome = "200 unreadable" -> RecordErrorAsync(RecordSuccessAsync(l), FALSE)
      [] outcome = "429" -> RecordErrorAsync(l, TRUE)
      [] OTHER -> RecordErrorAsync(l, FALSE)

\* parse_trending_page(html) in scrape_trending_by_range: `if html:` and pq(html)
ScrapeParse(s, document) ==
    CASE document = "listing" -> ScrapeReturns(s, ParsePage(env.page))
      [] document = "empty" -> ScrapeReturns(s, << >>)
      [] document = "unparseable" -> ScrapeRaises(s)

\* one attempt of fetch_page: session.get and what follows it
ScrapeAttempt ==
    /\ sc.pc = "request"
    /\ \E outcome \in AttemptOutcomes :
          LET issued == [sc EXCEPT !.requests = @ + 1, !.limiter_calls = @ + 1]
          IN  /\ lim' = AfterAttempt(lim, outcome)
              /\ IF outcome = "200"
                 THEN \E document \in Documents : ScrapeParse([issued EXCEPT !.fetch = "text"], document)
                 ELSE IF sc.attempt < DefaultRetries - 1
                      THEN sc' = [issued EXCEPT !.pc = "wait", !.attempt = @ + 1] /\ UNCHANGED run
                      ELSE ScrapeReturns([issued EXCEPT !.fetch = "none"], << >>)
    /\ UNCHANGED <<env, outsideScrape>>

NextScrape ==
    \/ CheckRobots
    \/ ScrapeGetSession
    \/ ScrapeWait
    \/ ScrapeAttempt

SpecScrape == InitScrape /\ [][NextScrape]_vars

(***************************************************************************)
(* The pacing of the listing requests: scrape_trending_by_range's sleep    *)
(* for the site's crawl delay, then fetch_page's attempts, each behind     *)
(* wait_async and followed by the backoff sleep.  Times are exact          *)
(* rationals in seconds; a sleep lasts what was asked for, a request       *)
(* takes a second or no time.                                              *)
(***************************************************************************)
RAdd(a, b) == Norm(<<a[1] * b[2] + b[1] * a[2], a[2] * b[2]>>)

RSub(a, b) == Norm(<<a[1] * b[2] - b[1] * a[2], a[2] * b[2]>>)

\* get_recommended_delay(url): None, or the Crawl-delay the site declares
CrawlDelays == {<< >>, <<<<1, 1>>>>, <<<<3, 1>>>>}

\* what time.time() shows when the call starts
PaceStart == <<10, 1>>

\* the limiter's last_request_time then: never stamped, or stamped just now
\* by the request before
LastStamps == {<<0, 1>>, PaceStart}

\* seconds a request takes
RequestSeconds == {<<0, 1>>, <<1, 1>>}

\* the scraper's limiter as constructed and as two throttle signals leave it
PaceLimiters ==
    LET fresh == NewLimiter(<<2, 1>>, <<1, 2>>, <<5, 1>>)
    IN  {fresh, RecordErrorAsync(RecordErrorAsync(fresh, TRUE), TRUE)}

\* the call explored: scrape_trending_by_range, which calls fetch_page(url),
\* or fetch_page(url, retries) by itself
InitPace ==
    /\ \E l \in PaceLimiters : lim = l
    /\ \E last \in LastStamps :
          \/ \E d \in CrawlDelays :
                pace = [pc |-> "delay", entry |-> "scrape_trending_by_range", retries |-> DefaultRetries,
                        crawl_delay |-> d, now |-> PaceStart, last_request_time |-> last,
                        attempt |-> 0, issued |-> << >>, outcomes |-> << >>, sleeps |-> << >>,
                        result |-> "pending"]
          \/ \E n \in 0 .. MaxRetries :
                pace = [pc |-> "enter", entry |-> "fetch_page", retries |-> n,
                        crawl_delay |-> << >>, now |-> PaceStart, last_request_time |-> last,
                        attempt |-> 0, issued |-> << >>, outcomes |-> << >>, sleeps |-> << >>,
                        result |-> "pending"]
    /\ lastOp = "init"
    /\ prevInterval = lim.current_interval
    /\ nadj = 0
    /\ runLen = 0
    /\ runStart = lim.current_interval
    /\ asyncLock = "unset"
    /\ ConcIdle
    /\ FetchIdle
    /\ SummIdle
    /\ RunIdle
    /\ WaitIdle
    /\ PureIdle
    /\ BackendsIdle
    /\ ScrapeIdle
    /\ PolicyIdle
    /\ JobsIdle
    /\ StreamIdle

outsidePace == <<limGhost, concVars, asyncLock, fetchVars, summVars, runVars,
                 waitVars, pureVars, sm, sc, policy, jobs, stream>>

\* `if recommended_delay: await asyncio.sleep(recommended_delay)`
PaceDelay ==
    /\ pace.pc = "delay"
    /\ pace' = [pace EXCEPT !.pc = "enter",
                            !.now = IF pace.crawl_delay = << >> THEN @ ELSE RAdd(@, pace.crawl_delay[1])]
    /\ UNCHANGED <<lim, outsidePace>>

\* fetch_page: `session = await self._get_session()`, which may raise, and
\* the entry of `for attempt in range(retries)`
PaceEnter ==
    /\ pace.pc = "enter"
    /\ \/ pace' = [pace EXCEPT !.pc = IF pace.retries = 0 THEN "returned" ELSE "wait",
                               !.result = IF pace.retries = 0 THEN "none" ELSE @]
       \/ pace' = [pace EXCEPT !.pc = "raised", !.result = "raised"]
    /\ UNCHANGED <<lim, outsidePace>>

\* wait_async at time t: the time it returns at, which it stamps
WaitAsyncUntil(current_interval, last_request_time, t) ==
    LET elapsed == RSub(t, last_request_time)
    IN  IF RLess(elapsed, current_interval)
        THEN RAdd(t, RSub(current_interval, elapsed))
        ELSE t

\* `await self.rate_limiter.wait_async()`, then the request is issued
PaceWait ==
    /\ pace.pc = "wait"
    /\ LET at == WaitAsyncUntil(lim.current_interval, pace.last_request_time, pace.now)
       IN  pace' = [pace EXCEPT !.pc = "request", !.now = at, !.last_request_time = at,
                       !.issued = Append(@, [at |-> at, previous |-> pace.last_request_time,
                                             began |-> pace.now,
                                             current_interval |-> lim.current_interval])]
    /\ UNCHANGED <<lim, outsidePace>>

\* a backoff that also sleeps after the last attempt
BackoffAlways(attempt, retries) == <<Pow2(attempt)>>

\* `if attempt < retries - 1: await asyncio.sleep(2 ** attempt)`
BackoffSleep(attempt, retries) == IF attempt < retries - 1 THEN <<Pow2(attempt)>> ELSE << >>

\* `return await response.text()` leaves the loop
LoopEnds(p, outcome) == outcome = "200"

\* one attempt of fetch_page: session.get, the limiter's record, the backoff
PaceAttempt ==
    /\ pace.pc = "request"
    /\ \E outcome \in AttemptOutcomes, took \in RequestSeconds :
          LET done == [pace EXCEPT !.now = RAdd(@, took), !.outcomes = Append(@, outcome)]
              sleep == BackoffSleep(pace.attempt, pace.retries)
              slept == [done EXCEPT !.sleeps = @ \o sleep,
                                    !.now = IF sleep = << >> THEN @ ELSE RAdd(@, <<sleep[1], 1>>)]
          IN  /\ lim' = AfterAttempt(lim, outcome)
              /\ IF LoopEnds(pace, outcome)
                 THEN pace' = [done EXCEPT !.pc = "returned", !.result = "text"]
                 ELSE IF pace.attempt + 1 < pace.retries
                      THEN pace' = [slept EXCEPT !.pc = "wait", !.attempt = @ + 1]
                      ELSE pace' = [slept EXCEPT !.pc = "returned", !.result = "none"]
    /\ UNCHANGED outsidePace

NextPace ==
    \/ PaceDelay
    \/ PaceEnter
    \/ PaceWait
    \/ PaceAttempt

SpecPace == InitPace /\ [][NextPace]_vars

(***************************************************************************)
(* RobotsChecker: can_fetch and get_crawl_delay over _get_parser, which    *)
(* functools.lru_cache(maxsize=128) wraps.  The cache is the list of its   *)
(* entries from the least to the most recently used; origins are numbered. *)
(***************************************************************************)
\* the cache before the explored calls: empty, one entry short of full, or
\* full; origin i was asked for i-th, and the policy of origin 1 failed to load
FilledCaches ==
    {[i \in 1 .. k |-> [base_url |-> i, parser |-> IF i = 1 THEN None ELSE <<"rules">>]] :
        k \in {0, CacheSize - 1, CacheSize}}

\* the origins the explored calls are about
CalledOrigins == {1, 2, CacheSize, CacheSize + 1, CacheSize + 2}

\* parser.read(): the policy loads, or the fetch fails
ReadOutcomes == {"loaded", "failed"}

InitPolicy ==
    /\ \E c \in FilledCaches : policy = [cache |-> c, filled |-> Len(c), calls |-> << >>]
    /\ CoreIdle
    /\ WaitIdle
    /\ PureIdle
    /\ BackendsIdle
    /\ ScrapeIdle
    /\ PaceIdle
    /\ JobsIdle
    /\ StreamIdle

outsidePolicy == <<coreVars, waitVars, pureVars, sm, sc, pace, jobs, stream>>

\* the position of base_url's entry, 0 when it has none
Lookup(cache, base_url) ==
    IF \E i \in 1 .. Len(cache) : cache[i].base_url = base_url
    THEN CHOOSE i \in 1 .. Len(cache) : cache[i].base_url = base_url
    ELSE 0

\* a hit that leaves the entry where it is
LeaveInPlace(cache, i) == cache

\* lru_cache on a hit: the entry becomes the most recently used
MoveToFront(cache, i) ==
    SubSeq(cache, 1, i - 1) \o SubSeq(cache, i + 1, Len(cache)) \o <<cache[i]>>

\* lru_cache on a miss: the result is stored, in place of the least recently
\* used entry when the cache is full
Store(cache, entry) ==
    IF Len(cache) >= CacheSize THEN Append(Tail(cache), entry) ELSE Append(cache, entry)

\* _get_parser's body: the parser, or None when parser.read() raised
LoadParser(outcome) == IF outcome = "loaded" THEN <<"rules">> ELSE None

\* _get_parser(base_url) through the cache
PolicyCall ==
    /\ Len(policy.calls) < MaxPolicyCalls
    /\ \E op \in {"can_fetch", "get_crawl_delay"}, base_url \in CalledOrigins, outcome \in ReadOutcomes :
          LET i == Lookup(policy.cache, base_url)
          IN  IF i # 0
              THEN /\ outcome = "loaded"
                   /\ policy' = [policy EXCEPT !.cache = MoveToFront(policy.cache, i),
                                 !.calls = Append(@,
                                     [op |-> op, base_url |-> base_url, fetched |-> FALSE,
                                      parser |-> policy.cache[i].parser])]
              ELSE /\ policy' = [policy EXCEPT !.cache = Store(policy.cache, [base_url |-> base_url,
                                                               parser |-> LoadParser(outcome)]),
                                 !.calls = Append(@,
                                     [op |-> op, base_url |-> base_url, fetched |-> TRUE,
                                      parser |-> LoadParser(outcome)])]
    /\ UNCHANGED outsidePolicy

NextPolicy == PolicyCall

SpecPolicy == InitPolicy /\ [][NextPolicy]_vars

(***************************************************************************)
(* parse_github_number.  A text is the sequence of its characters.         *)
(***************************************************************************)
Digits == {"0", "1", "2", "3", "4", "5", "6", "7", "8", "9"}

DigitValue(c) ==
    CASE c = "0" -> 0 [] c = "1" -> 1 [] c = "2" -> 2 [] c = "3" -> 3 [] c = "4" -> 4
      [] c = "5" -> 5 [] c = "6" -> 6 [] c = "7" -> 7 [] c = "8" -> 8 [] c = "9" -> 9

\* the counters a listing shows
IntTexts ==
    {<<"0">>, <<"5">>, <<"2">>, <<"8", "9">>, <<"1", "2", "3", "4">>, <<"1", ",", "2", "3", "4">>,
     <<"1", ",", "2", "3", "4", ",", "5", "6", "7">>}

\* the counters shown with a suffix
ShortTexts == {<<"5">>, <<"2">>, <<"8", "9">>, <<"1", ".", "2">>, <<"1", ".", "5">>, <<"1", "0", ".", "5">>}

Suffixes == {<<"k">>, <<"K">>, <<"m">>, <<"M">>}

StarsToday == <<" ", "s", "t", "a", "r", "s", " ", "t", "o", "d", "a", "y">>

StarsThisWeek == <<" ", "s", "t", "a", "r", "s", " ", "t", "h", "i", "s", " ", "w", "e", "e", "k">>

StarsThisMonth == <<" ", "s", "t", "a", "r", "s", " ", "t", "h", "i", "s", " ", "m", "o", "n", "t", "h">>

BuiltBy == <<"B", "u", "i", "l", "t", " ", "b", "y">>

\* the texts parse_trending_page and the tests hand to parse_github_number
CounterTexts ==
    {<< >>, BuiltBy}
    \cup IntTexts
    \cup {<<" ">> \o n \o <<" ">> : n \in IntTexts}
    \cup {n \o s : n \in ShortTexts, s \in Suffixes}
    \cup {n \o p : n \in IntTexts, p \in {StarsToday, StarsThisWeek, StarsThisMonth}}

InitNumber ==
    /\ \E text \in CounterTexts : call = [fn |-> "parse_github_number", text |-> text]
    /\ ret = [done |-> FALSE]
    /\ CoreIdle
    /\ WaitIdle
    /\ BackendsIdle
    /\ ScrapeIdle
    /\ ServiceIdle

\* text.replace(c, '')
Remove(text, c) == SelectSeq(text, LAMBDA x : x # c)

\* text.strip()
RECURSIVE Strip(_)
Strip(text) ==
    IF text = << >> THEN text
    ELSE IF Head(text) = " " THEN Strip(Tail(text))
    ELSE IF text[Len(text)] = " " THEN Strip(SubSeq(text, 1, Len(text) - 1))
    ELSE text

\* text.lower(), on the letters the texts hold
Lower(text) ==
    [i \in 1 .. Len(text) |->
        CASE text[i] = "K" -> "k"
          [] text[i] = "M" -> "m"
          [] text[i] = "B" -> "b"
          [] OTHER -> text[i]]

\* the value of a run of digits
RECURSIVE DigitsValue(_)
DigitsValue(ds) ==
    IF ds = << >> THEN 0 ELSE 10 * DigitsValue(SubSeq(ds, 1, Len(ds) - 1)) + DigitValue(ds[Len(ds)])

RECURSIVE Pow10(_)
Pow10(n) == IF n = 0 THEN 1 ELSE 10 * Pow10(n - 1)

\* float(s) raised ValueError
ValueError == <<"ValueError">>

\* float(s) on texts of digits, points, blanks and letters: the number as
\* <<n, d>>, or ValueError when s, stripped, is not digits with at most one point
FloatOf(s) ==
    LET t == Strip(s)
        points == {i \in 1 .. Len(t) : t[i] = "."}
    IN  IF /\ \A i \in 1 .. Len(t) : t[i] \in Digits \cup {"."}
           /\ Cardinality(points) <= 1
           /\ \E i \in 1 .. Len(t) : t[i] \in Digits
        THEN LET decimals == IF points = {} THEN 0 ELSE Len(t) - (CHOOSE i \in points : TRUE)
             IN  <<DigitsValue(Remove(t, ".")), Pow10(decimals)>>
        ELSE ValueError

\* int(float(s) * factor); a ValueError is caught: `return 0`
Scaled(f, factor) == IF f = ValueError THEN 0 ELSE (f[1] * factor) \div f[2]

\* re.findall(r'[\d.]+', text): the first run, << >> when there is none
FirstNumber(text) ==
    IF \E i \in 1 .. Len(text) : text[i] \in Digits \cup {"."}
    THEN LET first == CHOOSE i \in 1 .. Len(text) :
                          /\ text[i] \in Digits \cup {"."}
                          /\ \A j \in 1 .. i - 1 : text[j] \notin Digits \cup {"."}
             last == CHOOSE k \in first .. Len(text) :
                          /\ \A j \in first .. k : text[j] \in Digits \cup {"."}
                          /\ k = Len(text) \/ text[k + 1] \notin Digits \cup {"."}
         IN  SubSeq(text, first, last)
    ELSE << >>

\* parse_github_number(text)
ParseGithubNumber(text) ==
    IF text = << >> THEN 0
    ELSE LET stripped == Strip(Remove(text, ","))
             lower_text == Lower(stripped)
         IN  IF \E i \in 1 .. Len(lower_text) : lower_text[i] = "k"
             THEN Scaled(FloatOf(Remove(lower_text, "k")), 1000)
             ELSE IF \E i \in 1 .. Len(lower_text) : lower_text[i] = "m"
             THEN Scaled(FloatOf(Remove(lower_text, "m")), 1000000)
             ELSE IF FirstNumber(stripped) # << >>
                  THEN Scaled(FloatOf(FirstNumber(stripped)), 1)
                  ELSE 0

ApplyParseGithubNumber ==
    /\ call.fn = "parse_github_number"
    /\ ~ret.done
    /\ ret' = [done |-> TRUE, value |-> ParseGithubNumber(call.text)]
    /\ UNCHANGED <<call, outsidePure>>

NextNumber == ApplyParseGithubNumber

SpecNumber == InitNumber /\ [][NextNumber]_vars

(***************************************************************************)
(* The ways a pipeline invocation starts: the scheduler's jobs with their  *)
(* retry workers, the manually triggered background tasks, and the         *)
(* start-up initialization sequence.                                       *)
(***************************************************************************)
\* the start-up sequence: for task_type in ['daily', 'weekly', 'monthly']
StartupOrder == <<"daily", "weekly", "monthly">>

\* lifespan: the scheduler is started; the initialization sequence is created
\* when the database is empty
InitJobs ==
    /\ \E empty \in BOOLEAN :
          jobs = [pc |-> "serving", queue |-> << >>, workers |-> {}, fires |-> 0, triggers |-> 0,
                  background |-> IF empty THEN {[id |-> 0, source |-> "startup", step |-> 1,
                                                 task_type |-> StartupOrder[1], pc |-> "sleeping"]}
                                 ELSE {}]
    /\ CoreIdle
    /\ WaitIdle
    /\ PureIdle
    /\ BackendsIdle
    /\ ScrapeIdle
    /\ PaceIdle
    /\ PolicyIdle
    /\ StreamIdle

outsideJobs == <<coreVars, waitVars, pureVars, sm, sc, pace, policy, stream>>

\* the invocations of run_task_async under way
Invocations ==
    {[source |-> "scheduled", id |-> w.id, task_type |-> w.task_type] :
        w \in {x \in jobs.workers : x.pc = "running"}}
    \cup {[source |-> t.source, id |-> t.id, task_type |-> t.task_type] :
        t \in {x \in jobs.background : x.pc = "running"}}

\* _daily_job / _weekly_job / _monthly_job: the trigger fires and
\* _execute_with_retry submits retry_task to the shared executor
CronFire ==
    /\ jobs.pc = "serving"
    /\ jobs.fires < MaxFires
    /\ \E task_type \in TimeRanges :
          jobs' = [jobs EXCEPT !.fires = @ + 1,
                               !.queue = Append(@, [id |-> jobs.fires + 1, task_type |-> task_type])]
    /\ UNCHANGED outsideJobs

\* the executor starts a submitted retry_task as soon as a worker is free
StartWhenWorkerFree(task) == Cardinality(jobs.workers) < ExecutorWorkers

\* retry_task starts on a free worker: attempt 1 calls run_task
WorkerStart ==
    /\ jobs.pc = "serving"
    /\ jobs.queue # << >>
    /\ StartWhenWorkerFree(Head(jobs.queue))
    /\ jobs' = [jobs EXCEPT !.queue = Tail(@),
                            !.workers = @ \cup {[id |-> Head(jobs.queue).id,
                                                 task_type |-> Head(jobs.queue).task_type,
                                                 attempt |-> 1, pc |-> "running"]}]
    /\ UNCHANGED outsideJobs

\* the callback returns (the job is done), or raises: retry_task waits
\* retry_delay and tries again, up to max_retries attempts
WorkerFinish ==
    /\ \E w \in jobs.workers :
          /\ w.pc = "running"
          /\ \/ jobs' = [jobs EXCEPT !.workers = @ \ {w}]
             \/ jobs' = [jobs EXCEPT !.workers =
                            IF w.attempt < JobRetries
                            THEN (@ \ {w}) \cup {[w EXCEPT !.pc = "waiting"]}
                            ELSE @ \ {w}]
    /\ UNCHANGED outsideJobs

\* the retry delay is over: the next attempt calls run_task again
WorkerRetry ==
    /\ \E w \in jobs.workers :
          /\ w.pc = "waiting"
          /\ jobs' = [jobs EXCEPT !.workers = (@ \ {w}) \cup {[w EXCEPT !.pc = "running", !.attempt = @ + 1]}]
    /\ UNCHANGED outsideJobs

\* POST /api/tasks/run: a background task running run_task_async(task_type)
ManualTrigger ==
    /\ jobs.pc = "serving"
    /\ jobs.triggers < MaxTriggers
    /\ Cardinality(jobs.background) < MaxBackgroundTasks
    /\ \E task_type \in TimeRanges :
          jobs' = [jobs EXCEPT !.triggers = @ + 1,
                               !.background = @ \cup {[id |-> jobs.triggers + 1, source |-> "manual", step |-> 1,
                                                       task_type |-> task_type, pc |-> "running"]}]
    /\ UNCHANGED outsideJobs

\* _execute_task_background returns; the done callback discards the task
ManualFinish ==
    /\ \E t \in jobs.background :
          /\ t.source = "manual"
          /\ jobs' = [jobs EXCEPT !.background = @ \ {t}]
    /\ UNCHANGED outsideJobs

\* run_initialization_sequence: sleep, run a task type, sleep, run the next
StartupStep ==
    /\ \E t \in jobs.background :
          /\ t.source = "startup"
          /\ jobs' = [jobs EXCEPT !.background =
                         IF t.pc = "sleeping"
                         THEN (@ \ {t}) \cup {[t EXCEPT !.pc = "running"]}
                         ELSE IF t.step < Len(StartupOrder)
                         THEN (@ \ {t}) \cup {[t EXCEPT !.pc = "sleeping", !.step = @ + 1,
                                                        !.task_type = StartupOrder[t.step + 1]]}
                         ELSE @ \ {t}]
    /\ UNCHANGED outsideJobs

NextJobs ==
    \/ CronFire
    \/ WorkerStart
    \/ WorkerFinish
    \/ WorkerRetry
    \/ ManualTrigger
    \/ ManualFinish
    \/ StartupStep

SpecJobs == InitJobs /\ [][NextJobs]_vars

(***************************************************************************)
(* AsyncAISummarizer.generate_detailed_report_stream: one run of the       *)
(* generator, a step per event it yields.  A text is a sequence of tokens. *)
(***************************************************************************)
\* the summarizer's clients: none, some but not for enabled_models[0], or
\* one for enabled_models[0]
ClientSetups == {"no clients", "first model has no client", "ready"}

\* whether str.format accepts the configured detailed_prompt_template
TemplateKinds == {"formats", "raises"}

\* delta.content of a chunk: None or '' (no content), or a piece of text
DeltaContents == {<< >>, <<"{">>, <<"}">>, <<"[1]">>}

InitStream ==
    /\ \E c \in ClientSetups, t \in TemplateKinds :
          stream = [pc |-> "start", clients |-> c, template |-> t, chunks |-> 0,
                    collected_content |-> << >>, events |-> << >>]
    /\ CoreIdle
    /\ WaitIdle
    /\ PureIdle
    /\ BackendsIdle
    /\ ScrapeIdle
    /\ PaceIdle
    /\ PolicyIdle
    /\ JobsIdle

outsideStream == <<coreVars, waitVars, pureVars, sm, sc, pace, policy, jobs>>

Thinking(status) == [event |-> "thinking", status |-> status]

ErrorEvent(message) == [event |-> "error", message |-> message]

\* yield: the event reaches the consumer
Yield(s, event) == [s EXCEPT !.events = Append(@, event)]

\* the number of characters of a text
RECURSIVE Chars(_)
Chars(text) ==
    IF text = << >> THEN 0
    ELSE (IF Head(text) = "[1]" THEN 3 ELSE 1) + Chars(Tail(text))

\* the model output a text is: '{}' is an empty object, '[1]' a list, and
\* the other texts are not JSON
Read(text) ==
    IF text = <<"{", "}">>
    THEN [chars |-> 2, fenced |-> FALSE, valid |-> TRUE, value |-> JObject(<< >>)]
    ELSE IF text = <<"[1]">>
         THEN [chars |-> 3, fenced |-> FALSE, valid |-> TRUE, value |-> JValue("list", 1)]
         ELSE [chars |-> Chars(text), fenced |-> FALSE, valid |-> FALSE]

\* the two availability checks, then the first progress event
ReportStreamStart ==
    /\ stream.pc = "start"
    /\ stream' =
          CASE stream.clients = "no clients" ->
                  [Yield(stream, ErrorEvent("No AI models available")) EXCEPT !.pc = "ended"]
            [] stream.clients = "first model has no client" ->
                  [Yield(stream, ErrorEvent("No valid model available")) EXCEPT !.pc = "ended"]
            [] OTHER -> [Yield(stream, Thinking("analyzing")) EXCEPT !.pc = "prompt"]
    /\ UNCHANGED outsideStream

\* `prompt = self._build_detailed_prompt(repo_data)`, before the try block,
\* then the second progress event
ReportStreamPrompt ==
    /\ stream.pc = "prompt"
    /\ stream' = IF stream.template = "raises"
                 THEN [stream EXCEPT !.pc = "raised"]
                 ELSE [Yield(stream, Thinking("generating")) EXCEPT !.pc = "create"]
    /\ UNCHANGED outsideStream

\* `stream = await client.chat.completions.create(..., stream=True)`
ReportStreamCreate ==
    /\ stream.pc = "create"
    /\ \/ stream' = [stream EXCEPT !.pc = "iterate"]
       \/ \E message \in ExceptionMessages :
             stream' = [Yield(stream, ErrorEvent(message)) EXCEPT !.pc = "ended"]
    /\ UNCHANGED outsideStream

\* `collected_content += delta`
Collect(collected_content, delta) == collected_content \o delta

\* `async for chunk in stream`: a chunk with content is yielded as a partial event
ReportStreamChunk ==
    /\ stream.pc = "iterate"
    /\ stream.chunks < MaxStreamChunks
    /\ \E delta \in DeltaContents :
          LET next == [stream EXCEPT !.chunks = @ + 1]
          IN  stream' = IF delta = << >> THEN next
                        ELSE Yield([next EXCEPT !.collected_content = Collect(@, delta)],
                                   [event |-> "partial", content |-> delta])
    /\ UNCHANGED outsideStream

\* the stream is exhausted: the third progress event, the post-parse and the
\* complete event; or the stream or the post-parse raises: the except clause
ReportStreamEnd ==
    /\ stream.pc = "iterate"
    /\ \/ LET report == ParseReportJson(Read(stream.collected_content))
              parsing == Yield(stream, Thinking("parsing"))
          IN  stream' = IF report.raised
                        THEN [Yield(parsing, ErrorEvent("boom")) EXCEPT !.pc = "ended"]
                        ELSE [Yield(parsing, [event |-> "complete", report |-> report])
                                 EXCEPT !.pc = "ended"]
       \/ \E message \in ExceptionMessages :
             stream' = [Yield(stream, ErrorEvent(message)) EXCEPT !.pc = "ended"]
    /\ UNCHANGED outsideStream

\* the consumer stops iterating at an event: GeneratorExit is raised at the
\* yield, which `except Exception` does not catch
ReportStreamClose ==
    /\ stream.pc \in {"prompt", "create", "iterate"}
    /\ stream.events # << >>
    /\ stream' = [stream EXCEPT !.pc = "closed"]
    /\ UNCHANGED outsideStream

NextStream ==
    \/ ReportStreamStart
    \/ ReportStreamPrompt
    \/ ReportStreamCreate
    \/ ReportStreamChunk
    \/ ReportStreamEnd
    \/ ReportStreamClose

SpecStream == InitStream /\ [][NextStream]_vars

(***************************************************************************)
(* Termination.  The fetch_page calls of SpecFetch under a scheduler that  *)
(* runs every task that stays ready, and, started instead of them, worker  *)
(* threads that call wait() and then record_success() on one limiter, a    *)
(* number of rounds each.  Every HTTP request and every sleep completes.   *)
(***************************************************************************)
InitWorkers ==
    /\ lim = NewLimiter(<<10, 1>>, <<1, 100>>, <<1, 1>>)
    /\ lastOp = "init"
    /\ prevInterval = lim.current_interval
    /\ nadj = 0
    /\ runLen = 0
    /\ runStart = lim.current_interval
    /\ asyncLock = "unset"
    /\ ConcIdle
    /\ FetchIdle
    /\ SummIdle
    /\ RunIdle
    /\ now = 0
    /\ lastRequestTime = 0
    /\ wt = [w \in WaitThreads |-> [pc |-> "wait", round |-> 0]]
    /\ stamps = << >>
    /\ PureIdle
    /\ BackendsIdle
    /\ ScrapeIdle
    /\ ServiceIdle

outsideWorkers == <<limGhost, ctx, started, asyncLock, fetchVars, summVars, runVars,
                    now, lastRequestTime, stamps, pureVars, sm, sc, serviceVars>>

\* wait: `with self._sync_lock:` entered; the lock is held while the thread sleeps
WorkerWaitEnter(w) ==
    /\ wt[w].pc = "wait"
    /\ syncLock = "none"
    /\ syncLock' = "held"
    /\ wt' = [wt EXCEPT ![w].pc = "sleeping"]
    /\ UNCHANGED <<lim, outsideWorkers>>

\* wait: the sleep is over, the time is stamped and the lock released
WorkerWaitLeave(w) ==
    /\ wt[w].pc = "sleeping"
    /\ syncLock' = "none"
    /\ wt' = [wt EXCEPT ![w].pc = "record"]
    /\ UNCHANGED <<lim, outsideWorkers>>

\* record_success: `with self._sync_lock:` around the update, which blocks
\* nowhere; then the next round, or the thread ends
WorkerRecordSuccess(w) ==
    /\ wt[w].pc = "record"
    /\ syncLock = "none"
    /\ lim' = RecordSuccess(lim)
    /\ wt' = [wt EXCEPT ![w] = [pc |-> IF @.round + 1 < MaxRounds THEN "wait" ELSE "done",
                                round |-> @.round + 1]]
    /\ UNCHANGED <<syncLock, outsideWorkers>>

\* what the operating system can run of worker thread w
WorkerStep(w) ==
    /\ w \in DOMAIN wt
    /\ \/ WorkerWaitEnter(w)
       \/ WorkerWaitLeave(w)
       \/ WorkerRecordSuccess(w)

NextTerminate ==
    \/ NextFetch
    \/ \E w \in WaitThreads : WorkerStep(w)

\* every task and every thread that stays able to run does run
SpecTerminate ==
    /\ InitFetch \/ InitWorkers
    /\ [][NextTerminate]_vars
    /\ \A t \in Fetchers : WF_vars(FetchStep(t))
    /\ \A w \in WaitThreads : WF_vars(WorkerStep(w))

(***************************************************************************)
(* C1: in every reachable state of a limiter, min_interval <=              *)
(* current_interval <= max_interval.                                       *)
(***************************************************************************)
C1_IntervalWithinBounds ==
    /\ RLeq(lim.min_interval, lim.current_interval)
    /\ RLeq(lim.current_interval, lim.max_interval)

(***************************************************************************)
(* C8: a record_error(is_rate_limit=true) call never lowers                *)
(* current_interval, leaves it at most max_interval, and raises it         *)
(* strictly when it was below max_interval.                                *)
(***************************************************************************)
C8_ThrottleNonDecreasing ==
    lastOp = "record_error_throttle" =>
        /\ RLeq(prevInterval, lim.current_interval)
        /\ RLeq(lim.current_interval, lim.max_interval)
        /\ RLess(prevInterval, lim.max_interval) => RLess(prevInterval, lim.current_interval)

(***************************************************************************)
(* C9: over consecutive record_success calls current_interval strictly     *)
(* decreases at each tenth success while it is above min_interval (so a    *)
(* run of ten or more that began above min_interval ends lower than it     *)
(* began), and once it equals min_interval it stays there.                 *)
(***************************************************************************)
C9_SuccessRunDecreases ==
    /\ (lastOp = "record_success" /\ lim.success_count = 0 /\ RLess(lim.min_interval, prevInterval))
          => /\ RLess(lim.current_interval, prevInterval)
             /\ RLeq(lim.min_interval, lim.current_interval)
    /\ (lastOp = "record_success" /\ prevInterval = lim.min_interval)
          => lim.current_interval = lim.min_interval
    /\ (runLen >= SuccessThreshold /\ RLess(lim.min_interval, runStart))
          => RLess(lim.current_interval, runStart)
    /\ (runLen >= 1 /\ runStart = lim.min_interval)
          => lim.current_interval = lim.min_interval

\* a run of ten or more successes that began above min_interval and has reached it
C9_Witness ==
    /\ lastOp = "record_success"
    /\ runLen >= SuccessThreshold
    /\ RLess(lim.min_interval, runStart)
    /\ lim.current_interval = lim.min_interval
    /\ prevInterval = lim.min_interval

(***************************************************************************)
(* C10: with a thread calling the blocking operations and an event-loop    *)
(* task calling the suspension operations on one limiter, no increment of  *)
(* success_count or error_count is lost: whenever no call is in progress,  *)
(* success_count is the number of record_success calls modulo 10 and,      *)
(* no throttle signal having been recorded, error_count is the number of   *)
(* generic record_error calls modulo 3.                                    *)
(***************************************************************************)
C10_NoLostUpdate ==
    Quiescent =>
        /\ lim.success_count = started.success % SuccessThreshold
        /\ started.throttle = 0 => lim.error_count = started.error % ErrorThreshold

(***************************************************************************)
(* C2: at every instant at most max_concurrent listing requests of one     *)
(* scraper are in flight.                                                  *)
(***************************************************************************)
C2_FetchConcurrencyBounded ==
    /\ Cardinality(InFlight) <= maxConcurrent
    /\ fetchSem = maxConcurrent - Cardinality(InFlight)

\* the cap is reached while another call waits for a permit
C2_Witness ==
    /\ Cardinality(InFlight) = maxConcurrent
    /\ \E t \in Fetchers : ft[t].pc = "gate"
    /\ \E t \in InFlight : ft[t].attempt > 0

(***************************************************************************)
(* C3: at every instant at most max_concurrent provider calls of one       *)
(* summarizer are in flight, batch items, the detailed report and the      *)
(* streaming report counted together.                                      *)
(***************************************************************************)
C3_SummaryConcurrencyBounded ==
    /\ CallsInFlight <= summMax
    /\ summSem = summMax - CallsInFlight

\* the cap is reached by calls of different kinds while a batch item waits
C3_Witness ==
    /\ CallsInFlight = summMax
    /\ aux.stream = "streaming"
    /\ \E i \in DOMAIN st : st[i].pc = "calling" /\ st[i].attempt > 0
    /\ \E i \in DOMAIN st : st[i].pc = "wait"

(***************************************************************************)
(* C7: batch_summarize returns one output per input candidate, in input    *)
(* order; an item whose provider calls all failed gets a summary that      *)
(* contains its description and a fallback marker, and every item whose    *)
(* call returned a text gets exactly that text.                            *)
(***************************************************************************)
C7_BatchOneOutputPerInput ==
    output.returned =>
        /\ Len(output.repos) = Len(batch)
        /\ \A i \in 1 .. Len(batch) :
              /\ output.repos[i].name = batch[i].name
              /\ output.repos[i].description = batch[i].description
        /\ st # << >> =>
              \A i \in 1 .. Len(batch) :
                  /\ (st[i].result = NoSummary /\ st[i].attempt = SummaryRetries)
                        => /\ Contains(output.repos[i].ai_summary, batch[i].description)
                           /\ Contains(output.repos[i].ai_summary, IntroMarker)
                           /\ Len(output.repos[i].ai_summary) = Len(batch[i].description) + 1
                  /\ (st[i].result.kind = "text" /\ st[i].result.text # << >>)
                        => output.repos[i].ai_summary = st[i].result.text

\* three candidates, the provider calls of the second exhausted, the others summarized
C7_Witness ==
    /\ output.returned
    /\ Len(batch) = 3
    /\ st # << >>
    /\ st[2].result = NoSummary /\ st[2].attempt = SummaryRetries
    /\ st[1].result = TextSummary(<<"s1">>)
    /\ st[3].result = TextSummary(<<"s1">>)
    /\ output.repos[2].ai_summary = IntroMarker \o batch[2].description

(***************************************************************************)
(* C4: the candidates handed to batch_summarize in one run contain each    *)
(* identity at most once, whatever the fetched page contains.              *)
(***************************************************************************)
C4_NoIdentitySummarizedTwice ==
    run.handed.called => NoDuplicateNames(run.handed.repos)

(***************************************************************************)
(* C5: no identity that is in the range's stored seen-set at run start is  *)
(* handed to summarization or to the notifier, in every execution of the   *)
(* run, also when reading the seen-set fails.                              *)
(***************************************************************************)
C5_SeenNeverRenotified ==
    /\ Names(run.handed.repos) \cap run.seen0 = {}
    /\ \A k \in 1 .. Len(sent) : Names(sent[k]) \cap run.seen0 = {}

(***************************************************************************)
(* C6: run_task_async never raises: whatever a stage raises, the run       *)
(* returns a TaskResult with success, repos_found, repos_after_filter,     *)
(* email_sent and, on failure, an error message.                           *)
(***************************************************************************)
C6_RunNeverRaises ==
    /\ run.pc # "raised"
    /\ run.pc = "returned" =>
          /\ run.result.success \in BOOLEAN
          /\ run.result.email_sent \in BOOLEAN
          /\ run.result.repos_found \in 0 .. Len(env.page)
          /\ run.result.repos_after_filter \in 0 .. run.result.repos_found
          /\ ~run.result.success => run.result.error_message # "None"
          /\ run.result.email_sent => run.result.success

\* a run in which saving raised and was backed up, and then the notifier raised
C6_Witness ==
    /\ run.pc = "returned"
    /\ run.raised = {"save", "notify"}
    /\ run.result.error_message = ""
    /\ run.result.repos_after_filter = 2
    /\ ~run.result.success

(***************************************************************************)
(* C11: with any callers of wait() and wait_async() on one limiter, any    *)
(* two successive issue stamps are at least current_interval apart (the    *)
(* interval in force when the later caller waited).                        *)
(***************************************************************************)
C11_StampsSpaced ==
    \A k \in 2 .. Len(stamps) :
        RLeq(stamps[k].interval, <<stamps[k].at - stamps[k - 1].at, 1>>)

(***************************************************************************)
(* C12: given the fresh candidates C and the stored seen-set S of the      *)
(* range, the dedup step returns exactly the candidates of C whose         *)
(* identity is not in S, in their original order, and the removed count it *)
(* reports is the number of candidates of C whose identity is in S.        *)
(***************************************************************************)
C12_DedupExact ==
    run.dedup.done =>
        LET C == run.dedup.candidates
            S == run.seen0
        IN  /\ run.dedup.returned = SelectSeq(C, LAMBDA c : c.name \notin S)
            /\ run.dedup.reported
            /\ run.dedup.removed = Cardinality({i \in 1 .. Len(C) : C[i].name \in S})

(***************************************************************************)
(* C13: in the threshold filter without cold-start, every candidate whose  *)
(* total stars are below the star floor is excluded whatever its period    *)
(* increment, and every candidate at or above the floor whose period       *)
(* increment is exactly 0 passes, whatever the range's increment floor.    *)
(***************************************************************************)
C13_StarFloorAndZeroIncrement ==
    (call.fn = "filter_by_stars" /\ ret.done /\ ~call.ignore_thresholds) =>
        \A repo \in Range(call.repos) :
            /\ repo.stars < call.min_total_stars => repo \notin Range(ret.value)
            /\ (repo.stars >= call.min_total_stars /\ StarsIncrement(repo, call.time_range) = 0)
                  => repo \in Range(ret.value)

\* a weekly filtering that drops a candidate below the floor with a large
\* increment and keeps one above the floor with increment 0
C13_Witness ==
    /\ call.fn = "filter_by_stars" /\ ret.done /\ ~call.ignore_thresholds
    /\ call.time_range = "weekly" /\ call.min_total_stars = 100 /\ call.min_increment = 50
    /\ call.repos = <<[name |-> "a/x", stars |-> 99, stars_weekly |-> 60],
                      [name |-> "a/x", stars |-> 100, stars_weekly |-> 0]>>
    /\ ret.value = <<[name |-> "a/x", stars |-> 100, stars_weekly |-> 0]>>

(***************************************************************************)
(* C14 as stated: should_regenerate_summary decides regenerate if and only *)
(* if force_refresh is set, or no cached entry exists, or the entry is     *)
(* older than cache_expiry_days, or the descriptions differ, or the growth *)
(* ratio (current - prior) / prior exceeds stars_growth_threshold; it does *)
(* not raise when the prior count is missing or zero.                      *)
(***************************************************************************)
C14_RegenerateIffExceeds ==
    (call.fn = "should_regenerate_summary" /\ ret.done) =>
        /\ ~ret.value.raised
        /\ ret.value.regenerate <=>
              \/ call.config.force_refresh
              \/ call.summary_metadata = None
              \/ CacheExpired
              \/ DescriptionChanged
              \/ GrowthDefined /\ RLess(call.config.stars_growth_threshold, GrowthRatio)

(***************************************************************************)
(* C14 amended: the same, with the growth rule triggering when the growth  *)
(* ratio reaches or exceeds stars_growth_threshold (ratio >= threshold).   *)
(***************************************************************************)
C14_RegenerateIffReaches ==
    (call.fn = "should_regenerate_summary" /\ ret.done) =>
        /\ ~ret.value.raised
        /\ ret.value.regenerate <=>
              \/ call.config.force_refresh
              \/ call.summary_metadata = None
              \/ CacheExpired
              \/ DescriptionChanged
              \/ GrowthDefined /\ RLeq(call.config.stars_growth_threshold, GrowthRatio)

\* a reuse decided with no recorded prior star count, and nothing else asking
\* for a regeneration
C14_Witness ==
    /\ call.fn = "should_regenerate_summary" /\ ret.done
    /\ call.cached_stars = None
    /\ call.repo_data.stars = 150
    /\ ~call.config.force_refresh /\ call.summary_metadata # None
    /\ ret.value = Decision(FALSE, "cache_hit")

(***************************************************************************)
(* C15: with stars_growth_threshold = 0.2, an unexpired cached entry with  *)
(* the same description and stars grown from a prior 100 to a current 120  *)
(* yields regenerate; force_refresh yields regenerate for every input; a   *)
(* missing cache entry yields regenerate for every input.                  *)
(***************************************************************************)
C15_GrowthAtThresholdRegenerates ==
    (call.fn = "should_regenerate_summary" /\ ret.done) =>
        /\ (/\ call.config.stars_growth_threshold = <<1, 5>>
            /\ call.summary_metadata # None /\ ~CacheExpired /\ ~DescriptionChanged
            /\ call.cached_stars = <<100>> /\ call.repo_data.stars = 120)
              => ret.value.regenerate
        /\ call.config.force_refresh => ret.value.regenerate
        /\ call.summary_metadata = None => ret.value.regenerate

\* the 100 -> 120 case decided by the growth rule alone
C15_Witness ==
    /\ call.fn = "should_regenerate_summary" /\ ret.done
    /\ ~call.config.force_refresh
    /\ call.config.stars_growth_threshold = <<1, 5>>
    /\ call.summary_metadata # None /\ ~CacheExpired /\ ~DescriptionChanged
    /\ call.cached_stars = <<100>> /\ call.repo_data.stars = 120
    /\ ret.value = Decision(TRUE, "stars_growth")

(***************************************************************************)
(* C16: for every model output, whether or not it parses, the normalized   *)
(* report the post-parse returns has at most 6 key features, 8 tech-stack  *)
(* entries, 5 use cases, 4 limitations, 4 learning resources, 3            *)
(* integration examples and 5 FAQ entries.                                 *)
(***************************************************************************)
C16_ReportListCaps ==
    (call.fn = "_parse_report_json" /\ ret.done /\ ~ret.value.raised) =>
        /\ ret.value.lists.key_features.n <= 6
        /\ ret.value.lists.tech_stack.n <= 8
        /\ ret.value.lists.use_cases.n <= 5
        /\ ret.value.lists.limitations.n <= 4
        /\ ret.value.lists.learning_resources.n <= 4
        /\ ret.value.lists.integration_examples.n <= 3
        /\ ret.value.lists.faq.n <= 5

\* a parsed object with every list longer than its cap, returned cut
C16_Witness ==
    /\ call.fn = "_parse_report_json" /\ ret.done /\ ~ret.value.raised
    /\ call.raw_content.valid
    /\ \A f \in ListFields : f \in DOMAIN call.raw_content.value.fields
                                /\ call.raw_content.value.fields[f].n > ListCaps[f]
    /\ \A f \in ListFields : ret.value.lists[f].n = ListCaps[f]

(***************************************************************************)
(* C17: the structured-report post-parse returns a normalized report and   *)
(* never raises, for every model output (non-JSON text, a fenced block of  *)
(* invalid JSON, valid JSON that is not an object, objects whose scores or *)
(* list fields have the wrong type); when the text does not parse, the     *)
(* executive summary is an excerpt of the raw text of at most 500          *)
(* characters and every structured list field is empty.                    *)
(***************************************************************************)
C17_PostParseNeverRaises ==
    (call.fn = "_parse_report_json" /\ ret.done) =>
        /\ ~ret.value.raised
        /\ ~call.raw_content.valid =>
              /\ ret.value.executive_summary.src = "raw_content"
              /\ ret.value.executive_summary.n <= 500
              /\ \A f \in ListFields : ret.value.lists[f].n = 0

C19_FetchLayerNeverRaises ==
    /\ sc.pc # "raised"
    /\ sc.pc # "idle" => sc.fetch # "raised"

(***************************************************************************)
(* C20: when the politeness check answers that the listing URL may not be  *)
(* fetched, no HTTP request for the listing is issued and the rate limiter *)
(* is not touched, the scrape returns an empty list, and the run returns   *)
(* success = true with repos_found = 0 and no error_message.               *)
(***************************************************************************)
C20_DisallowedListingSkipped ==
    (sc.pc # "idle" /\ sc.robots = "disallowed") =>
        /\ sc.requests = 0
        /\ sc.limiter_calls = 0
        /\ lim = NewLimiter(<<2, 1>>, <<1, 2>>, <<5, 1>>)
        /\ sc.pc = "returned" /\ sc.repos = << >>
        /\ run.pc = "returned"
        /\ run.result.success
        /\ run.result.repos_found = 0
        /\ run.result.error_message = "None"

\* a disallowed listing that held three candidates
C20_Witness ==
    /\ sc.pc = "returned" /\ sc.robots = "disallowed"
    /\ Len(env.page) = 3
    /\ run.pc = "returned" /\ run.result.success

(***************************************************************************)
(* C21: before each listing request of a scrape, every retry attempt       *)
(* included, the time since the previous issued request is at least the    *)
(* maximum of the site-declared crawl delay and the limiter's              *)
(* current_interval, and before the first request the pipeline waits no    *)
(* longer than that maximum (the two waits are not added together).        *)
(***************************************************************************)
C21_RequestsSpacedByMaximum ==
    pace.entry = "scrape_trending_by_range" =>
        \A i \in 1 .. Len(pace.issued) :
            LET request == pace.issued[i]
                declared == IF pace.crawl_delay = << >> THEN <<0, 1>> ELSE pace.crawl_delay[1]
                maximum == RMax(declared, request.current_interval)
            IN  /\ RLeq(maximum, RSub(request.at, request.previous))
                /\ i = 1 => RLeq(RSub(request.at, PaceStart), maximum)

C22_PolicyCacheLRU ==
    LET calls == policy.calls
        \* when origin o was last used within the initial fill and the first j calls
        LastUse(o, j) ==
            LET hits == {c \in 1 .. j : calls[c].base_url = o}
            IN  IF hits # {} THEN policy.filled + (CHOOSE c \in hits : \A d \in hits : d <= c)
                ELSE IF o <= policy.filled THEN o ELSE 0
        AskedFor(j) == {calls[c].base_url : c \in 1 .. j}
        \* the origins used after time t, of the initial fill and the first j calls
        UsedAfter(t, j) ==
            Cardinality({o \in AskedFor(j) : LastUse(o, j) > t})
            + (IF t < policy.filled
               THEN (policy.filled - t) - Cardinality({o \in AskedFor(j) : o > t /\ o <= policy.filled})
               ELSE 0)
        Recent(o, j) == LastUse(o, j) > 0 /\ UsedAfter(LastUse(o, j), j) < CacheSize
        n == Len(calls)
    IN  /\ Len(policy.cache) <= CacheSize
        /\ \A o \in 1 .. CacheSize + 2 : (Lookup(policy.cache, o) # 0) <=> Recent(o, n)
        /\ \A i \in 1 .. Len(policy.cache) - 1 :
              LastUse(policy.cache[i].base_url, n) < LastUse(policy.cache[i + 1].base_url, n)
        /\ \A j \in 1 .. n : calls[j].fetched <=> ~Recent(calls[j].base_url, j - 1)

\* a full cache; origin 1, whose policy fetch had failed, is used again
\* without a fetch; a new origin then evicts origin 2, and origin 1 is
\* still answered from the cache
C22_Witness ==
    /\ policy.filled = CacheSize
    /\ Len(policy.calls) = 3
    /\ policy.calls[1].base_url = 1 /\ ~policy.calls[1].fetched /\ policy.calls[1].parser = None
    /\ policy.calls[2].base_url = CacheSize + 1 /\ policy.calls[2].fetched
    /\ policy.calls[3].base_url = 1 /\ ~policy.calls[3].fetched
    /\ Lookup(policy.cache, 2) = 0
    /\ Len(policy.cache) = CacheSize

(***************************************************************************)
(* C23: if batch summarization raises, the run does not abort: the         *)
(* notifier is still invoked exactly once, with the filtered candidates    *)
(* un-augmented, and the result's success and email_sent reflect the       *)
(* notifier's outcome.                                                     *)
(***************************************************************************)
C23_SummaryFailureStillNotifies ==
    (run.pc # "idle" /\ "summarize" \in run.raised) =>
        /\ run.pc \in {"notify", "returned"}
        /\ run.pc = "notify" => sent = << >> /\ run.repos = run.handed.repos
        /\ run.pc = "returned" =>
              /\ Len(sent) = 1
              /\ sent[1] = run.handed.repos
              /\ \A i \in 1 .. Len(sent[1]) : "ai_summary" \notin DOMAIN sent[1][i]
              /\ run.outcome \in {"true", "false", "raised"}
              /\ run.result.success = (run.outcome = "true")
              /\ run.result.email_sent = (run.outcome = "true")

\* two candidates, batch_summarize raised, the notifier got both and returned True
C23_Witness ==
    /\ run.pc = "returned"
    /\ run.raised = {"summarize"}
    /\ Len(sent) = 1 /\ Len(sent[1]) = 2
    /\ run.result.success /\ run.result.email_sent

(***************************************************************************)
(* C24: if the notifier returns false or raises, the run returns           *)
(* success = false and email_sent = false with a non-empty error_message,  *)
(* and the stored state (raw candidates, summaries, seen-set) is exactly   *)
(* what it was immediately before notification was attempted.              *)
(***************************************************************************)
C24_NotifyFailureReported ==
    [][(run.pc = "notify" /\ run'.outcome \in {"false", "raised"}) =>
          /\ run'.pc = "returned"
          /\ ~run'.result.success
          /\ ~run'.result.email_sent
          /\ run'.result.error_message \notin {"None", ""}
          /\ store' = store]_vars

(***************************************************************************)
(* C27: when the keyword list is empty the candidates leave the keyword    *)
(* stage unchanged; when it is non-empty, every candidate that is          *)
(* persisted, summarized or notified matches at least one configured       *)
(* keyword (if no candidate matches, none proceeds).                       *)
(***************************************************************************)
C27_KeywordNarrowing ==
    [][(run.pc = "keyword" /\ run'.pc # "keyword") =>
          IF env.keywords = {}
          THEN run'.pc = "save" /\ run'.repos = run.repos
          ELSE run'.pc = "save" =>
                  \A i \in 1 .. Len(run'.repos) : MatchRepo(run'.repos[i], env.keywords)]_vars

(***************************************************************************)
(* C28: in every run the stages occur in the order fetch+parse, dedup,     *)
(* threshold+language filter, keyword narrowing, persist raw candidates,   *)
(* summarize, persist summaries, notify; the notifier is invoked at most   *)
(* once per run, after all other stages, and exactly once when at least    *)
(* one candidate survives filtering.                                       *)
(***************************************************************************)
C28_StageOrderAndOneNotification ==
    [][LET Stages == <<"scrape", "dedup", "filter", "keyword", "save", "summarize",
                       "save_summaries", "notify", "returned">>
           StageIndex(pc) == CHOOSE i \in 1 .. Len(Stages) : Stages[i] = pc
       IN  /\ run'.pc # run.pc =>
                  \/ run'.pc = "returned"
                  \/ StageIndex(run'.pc) = StageIndex(run.pc) + 1
                  \/ run.pc = "summarize" /\ run'.pc = "notify"
           /\ sent' # sent => run.pc = "notify" /\ run'.pc = "returned"
           /\ Len(sent') <= 1
           /\ (run'.pc = "returned" /\ run'.result.repos_after_filter > 0) => Len(sent') = 1]_vars

(***************************************************************************)
(* C29: record_success lowers current_interval (to max(min_interval,       *)
(* 0.9 x current_interval)) and resets the success counter exactly when it *)
(* is the 10th success in a row, with no record_error between those 10     *)
(* successes; any other record_success leaves current_interval unchanged.  *)
(***************************************************************************)
C29_LowersOnTenthConsecutiveSuccess ==
    lastOp = "record_success" =>
        /\ lim.success_count = 0 =>
              /\ runLen = SuccessThreshold
              /\ lim.current_interval = RMax(lim.min_interval, RMul(prevInterval, 9, 10))
        /\ lim.success_count # 0 => lim.current_interval = prevInterval

(***************************************************************************)
(* C25: parse_github_number agrees with the reference decoder on every     *)
(* counter text: thousands separators are removed, a 'k'/'K' suffix        *)
(* multiplies by 1,000, an 'm'/'M' suffix by 1,000,000, any other text     *)
(* yields its first digit run ('<n> stars today', '<n> stars this week',   *)
(* '<n> stars this month' -> n), and empty or digit-free text yields 0.    *)
(***************************************************************************)
\* the reference decoder: a suffix is the last character of the text
ReferenceDecode(text) ==
    LET t == Strip(Remove(text, ","))
    IN  IF t = << >> THEN 0
        ELSE IF t[Len(t)] \in {"k", "K"} /\ FloatOf(SubSeq(t, 1, Len(t) - 1)) # ValueError
        THEN Scaled(FloatOf(SubSeq(t, 1, Len(t) - 1)), 1000)
        ELSE IF t[Len(t)] \in {"m", "M"} /\ FloatOf(SubSeq(t, 1, Len(t) - 1)) # ValueError
        THEN Scaled(FloatOf(SubSeq(t, 1, Len(t) - 1)), 1000000)
        ELSE IF FirstNumber(t) # << >> THEN Scaled(FloatOf(FirstNumber(t)), 1)
        ELSE 0

C25_NumberDecoding ==
    (call.fn = "parse_github_number" /\ ret.done) => ret.value = ReferenceDecode(call.text)

(***************************************************************************)
(* C26: no two pipeline invocations for the same time-range ever overlap   *)
(* in time, whether they start from the scheduled job (with its retry      *)
(* worker), from a manually triggered background task or from the          *)
(* start-up initialization sequence.                                       *)
(***************************************************************************)
C26_NoOverlapPerRange ==
    jobs.pc # "idle" =>
        \A i, j \in Invocations : i.task_type = j.task_type => i = j

(***************************************************************************)
(* C31: every fetch attempt reports exactly one outcome to the rate        *)
(* limiter: one record_error(is_rate_limit=true) after a 429, one generic  *)
(* record_error after any other failed attempt (another status, a timeout, *)
(* a transport error, a failure while reading the body), and one           *)
(* record_success and no record_error after a successful attempt.          *)
(***************************************************************************)
C31_OneOutcomePerAttempt ==
    \A t \in Fetchers :
        (ft[t].pc = "backoff" \/ (ft[t].pc = "done" /\ ft[t].result # "raised")) =>
            /\ Len(ft[t].reported) = 1
            /\ ft[t].reported[1] = Report(ft[t].reported[1].after)
            /\ ft[t].result = "html" <=> ft[t].reported[1].after = "200"

(***************************************************************************)
(* C32: for one batch item, generate_summary makes at most `retries`       *)
(* (default 5) provider calls, stops at the first call that returns, waits *)
(* 2^attempt seconds between failed attempts and not after the last,       *)
(* returns None (never raises) when all attempts fail, and does not hold a *)
(* concurrency slot while it is backing off.                               *)
(***************************************************************************)
C32_SummaryRetriesBounded ==
    /\ summSem + CallsInFlight = summMax
    /\ \A i \in DOMAIN st :
          LET s == st[i]
              failed == IF s.pc = "calling" THEN s.calls - 1
                        ELSE IF s.pc = "done" /\ s.result.kind = "text" THEN s.calls - 1
                        ELSE s.calls
          IN  /\ s.calls <= SummaryRetries
              /\ s.pc \in {"new", "wait", "calling", "backoff", "done"}
              /\ s.pc = "calling" => s.calls = s.attempt + 1
              /\ s.pc \in {"wait", "backoff"} => s.calls < SummaryRetries
              \* one sleep of 2^k after the k-th failed attempt (k from 0), none after the last
              /\ Len(s.sleeps) = (IF failed = SummaryRetries THEN failed - 1 ELSE failed)
              /\ \A k \in 1 .. Len(s.sleeps) : s.sleeps[k] = Pow2(k - 1)
              /\ s.pc = "done" =>
                    \/ s.result.kind = "text" /\ s.calls >= 1
                    \/ s.result = NoSummary /\ s.calls = SummaryRetries
                    \/ s.result = RaisedSummary /\ s.calls = 0

\* an item whose five calls all failed, after sleeps of 1, 2, 4 and 8 seconds,
\* while another item is backing off and a third holds the only slot
C32_Witness ==
    /\ summMax = 1
    /\ \E i \in DOMAIN st :
          /\ st[i].pc = "done" /\ st[i].result = NoSummary
          /\ st[i].calls = SummaryRetries
          /\ st[i].sleeps = <<1, 2, 4, 8>>
    /\ \E i \in DOMAIN st : st[i].pc = "backoff"
    /\ \E i \in DOMAIN st : st[i].pc = "calling"

\* the contents of the partial events of a sequence of events, concatenated
\* in emission order
RECURSIVE PartialContents(_)
PartialContents(events) ==
    IF events = << >> THEN << >>
    ELSE (IF Head(events).event = "partial" THEN Head(events).content ELSE << >>)
            \o PartialContents(Tail(events))

(***************************************************************************)
(* C33: every run of the streaming report that its consumer does not close *)
(* emits zero or more partial events followed by exactly one terminal      *)
(* event (complete or error) and nothing after it; no partial event        *)
(* follows the terminal event, and the report of a complete event is the   *)
(* structured post-parse of the concatenation of all partial contents in   *)
(* emission order.                                                         *)
(***************************************************************************)
C33_StreamEndsWithOneTerminalEvent ==
    LET events == stream.events
        Terminal(k) == events[k].event \in {"complete", "error"}
    IN  stream.pc # "idle" =>
            /\ \A k \in 1 .. Len(events) : Terminal(k) => k = Len(events) /\ stream.pc = "ended"
            /\ stream.pc \in {"ended", "raised"} =>
                  /\ events # << >>
                  /\ Terminal(Len(events))
                  /\ events[Len(events)].event = "complete" =>
                        events[Len(events)].report = ParseReportJson(Read(PartialContents(events)))

(***************************************************************************)
(* C34: in a pipeline run for any time-range R (daily, weekly or monthly)  *)
(* without cold-start, a candidate whose parsed period increment n         *)
(* satisfies 0 < n < increment floor of R never reaches summarization or   *)
(* notification.                                                           *)
(***************************************************************************)
C34_IncrementFloorEveryRange ==
    LET floor == FilterConfig.min_stars_increment[env.time_range]
        Below(repo) == 0 < repo.stars_daily /\ repo.stars_daily < floor
        NoneBelow(repos) == \A i \in 1 .. Len(repos) : ~Below(repos[i])
    IN  (run.pc # "idle" /\ ~env.is_startup) =>
            /\ run.handed.called => NoneBelow(run.handed.repos)
            /\ \A k \in 1 .. Len(sent) : NoneBelow(sent[k])

(***************************************************************************)
(* C35: under the cold-start override the star floor and the               *)
(* period-increment floor exclude no candidate: every deduplicated         *)
(* candidate passes the star/increment stage whatever its star count and   *)
(* increment, and the candidates that leave the filter stage are the       *)
(* deduplicated ones except those the language allow/deny lists exclude.   *)
(***************************************************************************)
C35_ColdStartBypassesFloors ==
    [][LET Allowed(repo) ==
               /\ env.languages.whitelist = {} \/ repo.language \in env.languages.whitelist
               /\ repo.language \notin env.languages.blacklist
           expected == SelectSeq(run.dedup.returned, Allowed)
       IN  (run.pc = "filter" /\ env.is_startup) =>
               /\ FilterByStars(run.repos, env.time_range, env.is_startup) = run.dedup.returned
               /\ run'.pc = "keyword" => run'.repos = expected
               /\ (run'.pc = "returned" /\ "filter" \notin run'.raised) => expected = << >>]_vars

\* a cold-start run whose filter stage let through a candidate below the
\* star floor and dropped only the one in the denied language, itself below
\* the increment floor
C35_Witness ==
    /\ env.is_startup /\ env.time_range = "daily"
    /\ env.languages.blacklist = {"Go"}
    /\ run.pc = "keyword"
    /\ Names(run.dedup.returned) = {"a/x", "b/y", "c/z"}
    /\ Names(run.repos) = {"a/x", "b/y"}

(***************************************************************************)
(* C36: every item returned by batch_summarize carries a summary text,     *)
(* either generated text or fallback text derived from its original        *)
(* description, in every configuration: also when no enabled provider is   *)
(* available, and when the first enabled provider was excluded for missing *)
(* credentials while a later enabled provider is usable.                   *)
(***************************************************************************)
C36_EveryItemCarriesSummary ==
    output.returned =>
        /\ Len(output.repos) = Len(batch)
        /\ \A i \in 1 .. Len(output.repos) :
              /\ "ai_summary" \in DOMAIN output.repos[i]
              /\ \/ output.repos[i].ai_summary \in ProviderTexts \ {<< >>}
                 \/ output.repos[i].ai_summary = IntroMarker \o batch[i].description
                 \/ output.repos[i].ai_summary = FailedMarker \o batch[i].description

\* the summary section of the configuration, with its defaults
SummaryPolicyConfig ==
    [force_refresh |-> FALSE, cache_expiry_days |-> 7, stars_growth_threshold |-> <<1, 5>>]

\* what should_regenerate_summary decides for a candidate of the run once its
\* trending record is saved: the latest stars and the stored description are
\* the candidate's own, and a cached summary is of the same day
PolicyDecides(repo) ==
    ShouldRegenerateSummary(SummaryPolicyConfig, repo,
                            IF \E x \in store.summaries : x[1] = repo.name
                            THEN <<[age_days |-> 0, description |-> repo.description]>>
                            ELSE None,
                            <<repo.stars>>)

(***************************************************************************)
(* C37: during a pipeline run the cache decision policy is consulted for   *)
(* each candidate before summarization: a candidate for which the policy   *)
(* decides reuse is not sent to a provider, and a provider is called only  *)
(* for candidates for which the policy decides regenerate.                 *)
(***************************************************************************)
C37_PolicyConsultedBeforeSummarizing ==
    [][(run.pc = "summarize" /\ run'.handed.called) =>
          \A i \in 1 .. Len(run'.handed.repos) : PolicyDecides(run'.handed.repos[i]).regenerate]_vars

(***************************************************************************)
(* C38: the persist-summaries stage is isolated from notification: if      *)
(* saving any generated summary to storage raises, the notifier is still   *)
(* invoked and its payload still carries every summary that batch          *)
(* summarization produced.                                                 *)
(***************************************************************************)
C38_SaveFailureKeepsSummaries ==
    [][/\ (run.pc = "save_summaries" /\ "save_summaries" \in run'.raised) =>
              /\ run'.pc = "notify"
              /\ run'.repos = run.repos
       /\ run.pc = "notify" => sent' = Append(sent, run.repos)]_vars

(***************************************************************************)
(* C39: a range's seen-set only grows, is read once at the start of a run  *)
(* and is appended to only at the end of that run: no identity of the run  *)
(* is added to the seen-set before the run's summarization and             *)
(* notification have finished.                                             *)
(***************************************************************************)
C39_SeenSetAppendedAtRunEnd ==
    [][LET before == SeenProjects(store.records, env.time_range)
           after == SeenProjects(store'.records, env.time_range)
       IN  /\ before \subseteq after
           /\ run.dedup.done => run'.dedup = run.dedup
           /\ after # run.seen0 => run'.pc = "returned"]_vars

(***************************************************************************)
(* C40: for concurrent fetch_page calls on one scraper, which share the    *)
(* limiter's async lock (held while a waiter sleeps) and the fetch         *)
(* semaphore (held while the outcome is recorded), no deadlock is          *)
(* reachable: provided every HTTP request and every sleep completes, every *)
(* fetch_page call terminates; likewise threads calling wait() and then    *)
(* record_success() on one limiter all terminate.                          *)
(***************************************************************************)
C40_EveryCallTerminates ==
    <>(/\ \A t \in DOMAIN ft : ft[t].pc = "done"
       /\ \A w \in DOMAIN wt : wt[w].pc = "done")

\* three calls on a scraper with one permit have all returned, one of them
\* after its last retry
C40_Witness ==
    /\ maxConcurrent = 1
    /\ DOMAIN ft = Fetchers
    /\ \A t \in Fetchers : ft[t].pc = "done"
    /\ \E t \in Fetchers : ft[t].result = "none" /\ ft[t].attempt = FetchRetries - 1
    /\ \E t \in Fetchers : ft[t].result = "html"

====
